---- MODULE Spec2Model ----
(***************************************************************************)
(* A model of odiff_py: the wrapper around the external odiff executable   *)
(* (src/odiff_py/wrapper.py) and its helpers (src/odiff_py/utils.py).      *)
(*                                                                         *)
(* Conventions                                                             *)
(*   - a Python str is a sequence of pieces (TLA+ strings); its text is    *)
(*     the concatenation of the pieces.  Text that the code takes apart    *)
(*     (stdout) is a sequence of one-character pieces.                     *)
(*   - an Optional value is a sequence of length <= 1: None is << >> and   *)
(*     a present value v is <<v>>.                                         *)
(*   - a float is the exact decimal [num, den] with den a power of ten.    *)
(*   - an image is [size |-> <<w, h>>, px |-> row-major pixel sequence].   *)
(***************************************************************************)
EXTENDS Integers, Sequences, FiniteSets, TLC

----------------------------------------------------------------------------
(* Bounds of the model                                                     *)

\* number of scratch directory names TemporaryDirectory can draw from
MaxTmpDirs == 2
\* longest stdout text enumerated for the parser
MaxStdoutLen == 5
\* image width and height in pixels
ImgW == 5
ImgH == 5
MaxFrames == 3
MaxArgs == 2
MaxArgLen == 2
MaxCoord == 10
MaxBytes == 3
MaxAreas == 2

----------------------------------------------------------------------------
(* Optional values                                                         *)

None == << >>
Some(v) == <<v>>
IsNone(o) == Len(o) = 0
IsSome(o) == Len(o) = 1
Get(o) == o[1]

----------------------------------------------------------------------------
(* Python str helpers                                                      *)

Digits == <<"0", "1", "2", "3", "4", "5", "6", "7", "8", "9">>
Whitespace == {" ", "\n"}

RECURSIVE NatStr(_)
NatStr(n) ==
    IF n < 10 THEN <<Digits[n + 1]>>
    ELSE NatStr(n \div 10) \o <<Digits[(n % 10) + 1]>>

\* str(int): f"{n}" of an integer
IntStr(n) == IF n < 0 THEN <<"-">> \o NatStr(0 - n) ELSE NatStr(n)

IsDigit(c) == \E i \in 1..10 : Digits[i] = c
DigitVal(c) == (CHOOSE i \in 1..10 : Digits[i] = c) - 1

\* first index of character c in s, 0 when absent
IndexOf(s, c) ==
    IF \E i \in 1..Len(s) : s[i] = c
    THEN CHOOSE i \in 1..Len(s) : s[i] = c /\ \A j \in 1..(i - 1) : s[j] # c
    ELSE 0

\* str.partition(sep): <<head, sep, tail>>, or <<s, "", "">> without sep
partition(s, sep) ==
    LET i == IndexOf(s, sep)
    IN  IF i = 0 THEN <<s, << >>, << >>>>
        ELSE <<SubSeq(s, 1, i - 1), <<sep>>, SubSeq(s, i + 1, Len(s))>>

\* str.split(sep): never empty, "".split(",") is [""]
RECURSIVE split(_, _)
split(s, sep) ==
    LET i == IndexOf(s, sep)
    IN  IF i = 0 THEN <<s>>
        ELSE <<SubSeq(s, 1, i - 1)>> \o split(SubSeq(s, i + 1, Len(s)), sep)

RECURSIVE rstrip(_)
rstrip(s) ==
    IF Len(s) > 0 /\ s[Len(s)] \in Whitespace THEN rstrip(SubSeq(s, 1, Len(s) - 1))
    ELSE s

RECURSIVE lstrip(_)
lstrip(s) ==
    IF Len(s) > 0 /\ s[1] \in Whitespace THEN lstrip(Tail(s))
    ELSE s

strip(s) == lstrip(rstrip(s))

RECURSIVE DigitsVal(_)
DigitsVal(s) ==
    IF Len(s) = 0 THEN 0
    ELSE 10 * DigitsVal(SubSeq(s, 1, Len(s) - 1)) + DigitVal(s[Len(s)])

AllDigits(s) == Len(s) > 0 /\ \A i \in 1..Len(s) : IsDigit(s[i])

\* int(text) succeeds: surrounding whitespace is ignored, the rest are digits
IntOk(s) == AllDigits(strip(s))
IntVal(s) == DigitsVal(strip(s))

RECURSIVE Pow10(_)
Pow10(k) == IF k = 0 THEN 1 ELSE 10 * Pow10(k - 1)

\* a decimal without trailing zeros in its fraction
RECURSIVE NormFloat(_)
NormFloat(f) ==
    IF f.den > 1 /\ f.num % 10 = 0 THEN NormFloat([num |-> f.num \div 10, den |-> f.den \div 10])
    ELSE f

\* float(text) succeeds: digits with at most one ".", at least one digit
FloatOk(s) ==
    LET t == strip(s)
        p == partition(t, ".")
    IN  /\ \A i \in 1..Len(p[1]) : IsDigit(p[1][i])
        /\ \A i \in 1..Len(p[3]) : IsDigit(p[3][i])
        /\ Len(p[1]) + Len(p[3]) > 0
FloatVal(s) ==
    LET t == strip(s)
        p == partition(t, ".")
    IN  NormFloat([num |-> DigitsVal(p[1]) * Pow10(Len(p[3])) + DigitsVal(p[3]),
                   den |-> Pow10(Len(p[3]))])

RECURSIVE ZeroPad(_, _)
ZeroPad(s, k) == IF Len(s) >= k THEN s ELSE ZeroPad(<<"0">> \o s, k)

RECURSIVE Log10(_)
Log10(d) == IF d <= 1 THEN 0 ELSE 1 + Log10(d \div 10)

\* f"{x}" of a float: repr always shows a fraction ("1.0", "0.1")
FloatStr(f) ==
    LET g == NormFloat(f)
    IN  NatStr(g.num \div g.den) \o <<".">> \o
        (IF g.den = 1 THEN <<"0">> ELSE ZeroPad(NatStr(g.num % g.den), Log10(g.den)))

\* f"{x:.2f}" of a non-negative float: two decimals, rounded
Format2f(f) ==
    LET hundredths == (200 * f.num + f.den) \div (2 * f.den)
    IN  NatStr(hundredths \div 100) \o <<".">> \o ZeroPad(NatStr(hundredths % 100), 2)

\* f"{x}" of an Optional int
OptIntStr(o) == IF IsSome(o) THEN IntStr(Get(o)) ELSE <<"None">>

\* sep.join(parts)
RECURSIVE join(_, _)
join(sep, parts) ==
    IF Len(parts) = 0 THEN << >>
    ELSE IF Len(parts) = 1 THEN parts[1]
    ELSE parts[1] \o <<sep>> \o join(sep, Tail(parts))

----------------------------------------------------------------------------
(* Images (PIL.Image.Image), one channel per pixel                         *)

NewImage(size, v) == [size |-> size, px |-> [i \in 1..(size[1] * size[2]) |-> v]]

\* index of pixel (x, y), 0-based coordinates, in the row-major sequence
PxIndex(size, x, y) == y * size[1] + x + 1
PxX(size, i) == (i - 1) % size[1]
PxY(size, i) == (i - 1) \div size[1]

\* copy(image): a new image object with the same pixels
copy(image) == [size |-> image.size, px |-> [i \in 1..Len(image.px) |-> image.px[i]]]

\* PIL's BLEND(mask, in1, in2): rounded (in1 * (255 - mask) + in2 * mask) / 255
Blend(mask, in1, in2) == (in1 * (255 - mask) + in2 * mask + 127) \div 255

\* Image.paste(im, (0, 0), mask) with im = mask = an RGBA overlay: the region
\* is clipped to the target, each pixel blended by the overlay's alpha
paste(image, overlay) ==
    [size |-> image.size,
     px |-> [i \in 1..Len(image.px) |->
               LET x == PxX(image.size, i)
                   y == PxY(image.size, i)
               IN  IF x < overlay.size[1] /\ y < overlay.size[2]
                   THEN LET o == overlay.px[PxIndex(overlay.size, x, y)]
                        IN  Blend(o.alpha, image.px[i], o.ink)
                   ELSE image.px[i]]]

----------------------------------------------------------------------------
(* IgnoreArea and the ignore-area overlay                                  *)

IgnoreArea(x1, y1, x2, y2) == [x1 |-> x1, y1 |-> y1, x2 |-> x2, y2 |-> y2]

\* the signs are left out of the text
to_region_str_unsigned(self) ==
    NatStr(IF self.x1 < 0 THEN 0 - self.x1 ELSE self.x1) \o <<":">> \o
    NatStr(IF self.y1 < 0 THEN 0 - self.y1 ELSE self.y1) \o <<"-">> \o
    NatStr(IF self.x2 < 0 THEN 0 - self.x2 ELSE self.x2) \o <<":">> \o
    NatStr(IF self.y2 < 0 THEN 0 - self.y2 ELSE self.y2)

\* IgnoreArea.to_region_str
to_region_str(self) ==
    IntStr(self.x1) \o <<":">> \o IntStr(self.y1) \o <<"-">> \o
    IntStr(self.x2) \o <<":">> \o IntStr(self.y2)

\* PIL.ImageColor.getrgb on the modelled channel
getrgb(color) == IF color = "red" THEN 255 ELSE IF color = "gray" THEN 128 ELSE 0

BorderWidth == 2

InRect(a, x, y) == a.x1 <= x /\ x <= a.x2 /\ a.y1 <= y /\ y <= a.y2
OnBorder(a, x, y) ==
    /\ InRect(a, x, y)
    /\ \/ x - a.x1 < BorderWidth \/ a.x2 - x < BorderWidth
       \/ y - a.y1 < BorderWidth \/ a.y2 - y < BorderWidth

\* ImageDraw.rectangle(area, fill=<ink or None>, outline=color, width=2): the
\* fill is painted first, the outline over it; drawing replaces pixels
rectangle(overlay, area, fill, outline) ==
    [size |-> overlay.size,
     px |-> [i \in 1..Len(overlay.px) |->
               LET x == PxX(overlay.size, i)
                   y == PxY(overlay.size, i)
               IN  IF OnBorder(area, x, y) THEN [ink |-> outline, alpha |-> 255]
                   ELSE IF InRect(area, x, y) /\ IsSome(fill) THEN Get(fill)
                   ELSE overlay.px[i]]]

\* the areas in the order they were declared
declaration_order(s) == s

RECURSIVE reversed(_)
reversed(s) == IF Len(s) = 0 THEN << >> ELSE reversed(Tail(s)) \o <<Head(s)>>

RECURSIVE DrawAreas(_, _, _, _)
DrawAreas(overlay, areas, fill, outline) ==
    IF Len(areas) = 0 THEN overlay
    ELSE DrawAreas(rectangle(overlay, Head(areas), fill, outline), Tail(areas), fill, outline)

\* create_ignore_areas_overlay(original_image, ignore_areas, color, fill=fill)
\* fill is a decimal; the result is an Optional overlay image
create_ignore_areas_overlay(original_image, ignore_areas, color, fill) ==
    IF Len(ignore_areas) = 0 THEN None
    ELSE LET overlay == NewImage(original_image.size, [ink |-> 0, alpha |-> 0])
             border_color == getrgb(color)
             fill_color == [ink |-> border_color, alpha |-> (255 * fill.num) \div fill.den]
         IN  Some(DrawAreas(overlay, reversed(ignore_areas),
                            IF fill.num # 0 THEN Some(fill_color) ELSE None,
                            border_color))

DefaultColor == "red"
DefaultFill == [num |-> 2, den |-> 10]

----------------------------------------------------------------------------
(* State                                                                   *)

VARIABLES
    fs,            \* the file system: path -> Optional file content (an image)
    dirs,          \* the scratch directories that exist
    pc,            \* per caller: where its odiff call stands
    call,          \* per caller: the arguments of its current (or last) odiff call
    tmp_dir,       \* per caller: the scratch directory of the call
    base,          \* per caller: _odiff's local base
    comparing,     \* per caller: _odiff's local comparing
    diff,          \* per caller: _odiff's local diff
    ignore_areas,  \* per caller: _odiff's local ignore_areas
    cli_args,      \* per caller: _odiff's local cli_args
    completed,     \* per caller: Optional (returncode, stdout, stderr) of run_odiff
    launches,      \* per caller: how often the call started the external process
    wrote,         \* per caller: whether the external process wrote the diff file in this call
    ret,           \* per caller: Optional outcome handed to the caller (a DiffResult or an exception)
    heap,          \* image objects: object id -> Optional image
    result,        \* a constructed DiffResult; its image fields hold object ids
    original,      \* the images result was constructed with
    read,          \* Optional last read of an image attribute: name, flag at the read, value
    returned,      \* Optional outcome of the last method call on result
    apng_files,    \* the files of the APNG composer: path -> Optional bytes
    apngasm,       \* the frames of the APNGAsmBinder of the last composition
    apng_call,     \* Optional last call of the composer, with the files it found
    apng_ret,      \* Optional outcome of that call
    applied,       \* a function of the package with its arguments and, once applied, its value
    disk,          \* the files and directories APNG objects are loaded from and saved to
    apng_obj       \* Optional APNG instance in the hands of the user, with the bytes it was made of

odiff_vars == <<fs, dirs, pc, call, tmp_dir, base, comparing, diff, ignore_areas,
                cli_args, completed, launches, wrote, ret>>

result_vars == <<heap, result, original, read, returned>>
apng_vars == <<apng_files, apngasm, apng_call, apng_ret>>
pure_vars == <<applied>>
file_vars == <<disk, apng_obj>>

Procs == {"p1", "p2"}

----------------------------------------------------------------------------
(* Paths and the file system                                               *)

\* directory 0 is the caller's directory, 1..MaxTmpDirs are scratch directories
TmpDirs == 1..MaxTmpDirs
CallerDir == 0
CallerNames == {"a.jpg", "b.jpg", "c.jpg", "out.png"}
TmpNames == {"base.png", "comparing.png", "diff.png"}

Path(dir, name) == [dir |-> dir, name |-> name]
AllPaths == {Path(CallerDir, n) : n \in CallerNames} \cup
            {Path(d, n) : d \in TmpDirs, n \in TmpNames}

\* tmp_dir / "name"
Joinpath(dir, name) == Path(dir, name)

\* Path.as_posix()
as_posix(p) ==
    IF p.dir = CallerDir THEN <<"data/", p.name>>
    ELSE <<"/tmp/odiff-py-">> \o IntStr(p.dir) \o <<"/", p.name>>

\* the file a posix path text names
PathOf(text) == CHOOSE p \in AllPaths : as_posix(p) = text

\* Path.is_file()
is_file(files, p) == IsSome(files[p])

\* Image.save(path) / the external process writing an image file
WriteFile(files, p, image) == [files EXCEPT ![p] = Some(image)]

\* every scratch directory is emptied, not only the one of the call
RemoveEveryTree(files, d) == [p \in AllPaths |-> IF p.dir \in TmpDirs THEN None ELSE files[p]]

\* shutil.rmtree of a scratch directory
RemoveTree(files, d) == [p \in AllPaths |-> IF p.dir = d THEN None ELSE files[p]]

----------------------------------------------------------------------------
(* Values handed to and from odiff                                         *)

PathArg(p) == [kind |-> "path", path |-> p]
ImageArg(image) == [kind |-> "image", image |-> image]
IsImage(v) == v.kind = "image"

Raise(exc, msg) == [kind |-> "raise", exc |-> exc, msg |-> msg]
IsRaise(r) == r.kind = "raise"
IsDiffResult(r) == r.kind = "DiffResult"

\* class CompareStatus(Enum)
IMAGE_MATCH == 0
LAYOUT_DIFFERENCE == 21
PIXEL_DIFFERENCE == 22

\* CompareStatus._value2member_map_
value2member_map ==
    [v \in {IMAGE_MATCH, LAYOUT_DIFFERENCE, PIXEL_DIFFERENCE} |->
        CASE v = IMAGE_MATCH -> "IMAGE_MATCH"
          [] v = LAYOUT_DIFFERENCE -> "LAYOUT_DIFFERENCE"
          [] v = PIXEL_DIFFERENCE -> "PIXEL_DIFFERENCE"]

\* CompareStatus(returncode)
CompareStatus(returncode) == value2member_map[returncode]

\* the dataclass DiffResult, the two presentation flags at their defaults
DiffResult(base_image, comparing_image, diff_image, status, diff_pixel_count, diff_percentage, diff_lines, areas) ==
    [kind |-> "DiffResult",
     base_image |-> base_image,
     comparing_image |-> comparing_image,
     diff_image |-> diff_image,
     status |-> status,
     diff_pixel_count |-> diff_pixel_count,
     diff_percentage |-> diff_percentage,
     diff_lines |-> diff_lines,
     ignore_areas |-> areas,
     use_checker_transparency |-> TRUE,
     show_ignore_areas_overlay |-> TRUE]

----------------------------------------------------------------------------
(* _odiff: the argument vector                                             *)

\* the elements are taken from the last to the first
normalize_ignore_reversed(ignore) ==
    IF IsSome(ignore)
    THEN [i \in 1..Len(Get(ignore)) |->
            LET ia == Get(ignore)[Len(Get(ignore)) + 1 - i].items
            IN  IgnoreArea(ia[1], ia[2], ia[3], ia[4])]
    ELSE << >>

\* ignore_areas = [IgnoreArea(*ia) for ia in ignore] if ignore is not None else []
normalize_ignore(ignore) ==
    IF IsSome(ignore)
    THEN [i \in 1..Len(Get(ignore)) |->
            LET ia == Get(ignore)[i].items IN IgnoreArea(ia[1], ia[2], ia[3], ia[4])]
    ELSE << >>

\* f"--ignore={','.join(ia.to_region_str() for ia in ignore_areas)}"
ignore_arg(areas) ==
    <<"--ignore=">> \o join(",", [i \in 1..Len(areas) |-> to_region_str(areas[i])])

Flag(enabled, arg) == IF enabled = TRUE THEN <<arg>> ELSE << >>

\* build_cli_args with the base and the comparing path in each other's place
build_cli_args_swapped(opts, areas, base_path, comparing_path, diff_path) ==
    <<<<"--parsable-stdout">>>>
    \o Flag(opts.antialiasing, <<"--antialiasing">>)
    \o <<<<"--diff-color=", opts.diff_color>>>>
    \o Flag(opts.diff_mask, <<"--diff-mask">>)
    \o Flag(opts.fail_on_layout, <<"--fail-on-layout">>)
    \o Flag(Len(areas) > 0, ignore_arg(areas))
    \o Flag(opts.output_diff_lines, <<"--output-diff-lines">>)
    \o Flag(opts.reduce_ram_usage, <<"--reduce-ram-usage">>)
    \o <<<<"--threshold=">> \o FloatStr(opts.threshold)>>
    \o <<as_posix(comparing_path), as_posix(base_path), as_posix(diff_path)>>

\* cli_args as _odiff has built it when it calls run_odiff
build_cli_args(opts, areas, base_path, comparing_path, diff_path) ==
    <<<<"--parsable-stdout">>>>
    \o Flag(opts.antialiasing, <<"--antialiasing">>)
    \o <<<<"--diff-color=", opts.diff_color>>>>
    \o Flag(opts.diff_mask, <<"--diff-mask">>)
    \o Flag(opts.fail_on_layout, <<"--fail-on-layout">>)
    \o Flag(Len(areas) > 0, ignore_arg(areas))
    \o Flag(opts.output_diff_lines, <<"--output-diff-lines">>)
    \o Flag(opts.reduce_ram_usage, <<"--reduce-ram-usage">>)
    \o <<<<"--threshold=">> \o FloatStr(opts.threshold)>>
    \o <<as_posix(base_path), as_posix(comparing_path), as_posix(diff_path)>>

----------------------------------------------------------------------------
(* _odiff: the result                                                      *)

\* returncode in CompareStatus._value2member_map_
is_compare_status(returncode) == returncode \in DOMAIN value2member_map

\* error_msg without the captured text
error_msg_without_stderr(stderr) == <<"Error calling odiff executable:\n">>

\* f"Error calling odiff executable:\n{stderr}"
error_msg(stderr) == <<"Error calling odiff executable:\n">> \o stderr

\* stdout_fields with the second partition taken of stdout, not of the rest
stdout_fields_repartitioned(stdout) ==
    LET first == partition(stdout, ";")
        second == partition(stdout, ";")
    IN  <<first[1], second[1], second[3]>>

\* the two partitions of stdout: <<diff_pixel_count, diff_percent, diff_lines>>
stdout_fields(stdout) ==
    LET first == partition(stdout, ";")
        second == partition(first[3], ";")
    IN  <<first[1], second[1], second[3]>>

\* the line_nr texts that [... for line_nr in diff_lines.split(",") if line_nr.rstrip() != ""] keeps
line_nr_texts(text) == SelectSeq(split(text, ","), LAMBDA line_nr : rstrip(line_nr) # << >>)

\* load_image(path): the image stored in the file, when there is one
load_image(files, path) == files[path]

\* load_image(diff) if Path(diff).is_file() else None
diff_image_of(files, diff_path) ==
    IF is_file(files, diff_path) THEN load_image(files, diff_path) ELSE None

\* a result is handed back whatever stdout holds: the numbers are left out
odiff_return_without_numbers(files, returncode, stdout, stderr, base_path, comparing_path, diff_path, areas) ==
    IF ~is_compare_status(returncode) THEN Raise("RuntimeError", error_msg(stderr))
    ELSE IF IsNone(load_image(files, base_path)) THEN Raise("FileNotFoundError", as_posix(base_path))
    ELSE IF IsNone(load_image(files, comparing_path)) THEN Raise("FileNotFoundError", as_posix(comparing_path))
    ELSE DiffResult(Get(load_image(files, base_path)), Get(load_image(files, comparing_path)),
                    diff_image_of(files, diff_path), CompareStatus(returncode),
                    None, None, << >>, areas)

\* what _odiff hands back after run_odiff returned: a DiffResult, or the
\* first exception raised while the constructor's arguments are evaluated
odiff_return(files, returncode, stdout, stderr, base_path, comparing_path, diff_path, areas) ==
    LET fields == stdout_fields(stdout)
        lines == line_nr_texts(fields[3])
    IN  IF ~is_compare_status(returncode) THEN Raise("RuntimeError", error_msg(stderr))
        ELSE IF IsNone(load_image(files, base_path)) THEN Raise("FileNotFoundError", as_posix(base_path))
        ELSE IF IsNone(load_image(files, comparing_path)) THEN Raise("FileNotFoundError", as_posix(comparing_path))
        ELSE IF fields[1] # << >> /\ ~IntOk(fields[1]) THEN Raise("ValueError", fields[1])
        ELSE IF fields[2] # << >> /\ ~FloatOk(fields[2]) THEN Raise("ValueError", fields[2])
        ELSE IF \E i \in 1..Len(lines) : ~IntOk(lines[i])
             THEN Raise("ValueError", lines[CHOOSE i \in 1..Len(lines) :
                                              ~IntOk(lines[i]) /\ \A j \in 1..(i - 1) : IntOk(lines[j])])
        ELSE DiffResult(Get(load_image(files, base_path)),
                        Get(load_image(files, comparing_path)),
                        diff_image_of(files, diff_path),
                        CompareStatus(returncode),
                        IF fields[1] # << >> THEN Some(IntVal(fields[1])) ELSE None,
                        IF fields[2] # << >> THEN Some(FloatVal(fields[2])) ELSE None,
                        [i \in 1..Len(lines) |-> IntVal(lines[i])],
                        areas)

\* cleanup that is skipped when the with block is left by an exception
cleanup_on_return_only(files, ds, d, outcome) ==
    IF IsRaise(outcome) THEN <<files, ds>> ELSE <<RemoveTree(files, d), ds \ {d}>>

\* TemporaryDirectory.__exit__(exc, value, tb): the directory and everything
\* in it is removed, whatever way the with block is left
cleanup(files, ds, d, outcome) == <<RemoveTree(files, d), ds \ {d}>>

----------------------------------------------------------------------------
(* The APNG composer                                                       *)

\* delay_num: int = 500, delay_den: int = 1000
DefaultDelayNum == 500
DefaultDelayDen == 1000

\* the scratch file of a composition and a file of the caller
TmpApng == "tmp/animated.apng"
OutApng == "out/animated.apng"
ApngPaths == {TmpApng, OutApng}
NoApngFiles == [p \in ApngPaths |-> None]

Bytes(data) == [kind |-> "bytes", data |-> data]
IsBytes(r) == r.kind = "bytes"

\* APNGAsmBinder.add_frame_from_pillow
add_frame_from_pillow(frames, image, delay_num, delay_den) ==
    Append(frames, [image |-> image, delay_num |-> delay_num, delay_den |-> delay_den])

\* a blank frame stands for an absent image
add_frames_blank_for_none(frames, images, delay_num, delay_den) ==
    frames \o [i \in 1..Len(images) |->
                 [image |-> IF IsSome(images[i]) THEN Get(images[i]) ELSE NewImage(<<1, 1>>, 0),
                  delay_num |-> delay_num, delay_den |-> delay_den]]

\* for image in images: if image is not None: apngasm.add_frame_from_pillow(...)
RECURSIVE add_frames(_, _, _, _)
add_frames(frames, images, delay_num, delay_den) ==
    IF Len(images) = 0 THEN frames
    ELSE add_frames(IF IsSome(Head(images))
                    THEN add_frame_from_pillow(frames, Get(Head(images)), delay_num, delay_den)
                    ELSE frames,
                    Tail(images), delay_num, delay_den)

\* the file an assembly writes: the header of the first frame, the animation
\* control chunk with the number of frames, then per frame its control chunk
\* (sequence number, size, delay) and its pixel data
apng_bytes(frames) ==
    <<[chunk |-> "IHDR", size |-> frames[1].image.size],
      [chunk |-> "acTL", num_frames |-> Len(frames)]>> \o
    [i \in 1..(2 * Len(frames)) |->
        LET f == frames[(i + 1) \div 2]
        IN  IF i % 2 = 1
            THEN [chunk |-> "fcTL", sequence_number |-> (i - 1) \div 2, size |-> f.image.size,
                  delay_num |-> f.delay_num, delay_den |-> f.delay_den]
            ELSE [chunk |-> "fdAT", px |-> f.image.px]]

\* APNGAsmBinder.assemble(path): without frames nothing is written
assemble(frames, files, path) ==
    IF Len(frames) = 0 THEN files
    ELSE [files EXCEPT ![path] = Some(apng_bytes(frames))]

\* Path.read_bytes
read_bytes(files, path) ==
    IF IsSome(files[path]) THEN Bytes(Get(files[path]))
    ELSE Raise("FileNotFoundError", <<path>>)

\* png_images_to_apng_bytes(images, out_file, delay_num=, delay_den=): the
\* frames of the binder, the files afterwards (the TemporaryDirectory is gone
\* again), and the bytes or the exception
png_images_to_apng_bytes(files, images, out_file, delay_num, delay_den) ==
    LET frames == add_frames(<< >>, images, delay_num, delay_den)
        in_tmp == [files EXCEPT ![TmpApng] = None]
        path == IF IsSome(out_file) THEN Get(out_file) ELSE TmpApng
        assembled == assemble(frames, in_tmp, path)
    IN  [frames |-> frames,
         files |-> [assembled EXCEPT ![TmpApng] = None],
         value |-> read_bytes(assembled, path)]

\* the dataclass APNG
APNG(data) == [kind |-> "APNG", data |-> data, use_checker_transparency |-> TRUE]
IsAPNG(r) == r.kind = "APNG"

\* the base64 alphabet
B64Alphabet ==
    <<"A", "B", "C", "D", "E", "F", "G", "H", "I", "J", "K", "L", "M", "N", "O", "P",
      "Q", "R", "S", "T", "U", "V", "W", "X", "Y", "Z", "a", "b", "c", "d", "e", "f",
      "g", "h", "i", "j", "k", "l", "m", "n", "o", "p", "q", "r", "s", "t", "u", "v",
      "w", "x", "y", "z", "0", "1", "2", "3", "4", "5", "6", "7", "8", "9", "+", "/">>
B64Char(sextet) == B64Alphabet[sextet + 1]

\* base64.b64encode(data).decode("utf-8") of a sequence of bytes 0..255
RECURSIVE b64encode(_)
b64encode(data) ==
    IF Len(data) = 0 THEN << >>
    ELSE IF Len(data) = 1
    THEN <<B64Char(data[1] \div 4), B64Char((data[1] % 4) * 16), "=", "=">>
    ELSE IF Len(data) = 2
    THEN <<B64Char(data[1] \div 4), B64Char((data[1] % 4) * 16 + data[2] \div 16),
           B64Char((data[2] % 16) * 4), "=">>
    ELSE <<B64Char(data[1] \div 4), B64Char((data[1] % 4) * 16 + data[2] \div 16),
           B64Char((data[2] % 16) * 4 + data[3] \div 64), B64Char(data[3] % 64)>> \o
         b64encode(SubSeq(data, 4, Len(data)))

\* CHECKER_TRANSPARENCY_CSS, as one piece of text
CHECKER_TRANSPARENCY_CSS == "background: linear-gradient(45deg, ...), white; ... transform: scaleX(1) scaleY(1) scaleZ(1);"

\* APNG.__str__
APNG_str(self) ==
    <<"<img style=\"border: 1px solid; ">> \o
    (IF self.use_checker_transparency = TRUE THEN <<CHECKER_TRANSPARENCY_CSS>> ELSE << >>) \o
    <<"\" src=\"data:image/apng;base64,">> \o b64encode(self.data) \o <<"\">">>

\* paths are sequences of names; the files the model has, the directories
\* above them
FilePaths ==
    { <<"in", "tiger.apng">>, <<"in", "none.apng">>, <<"saved.apng">>,
      <<"out", "deep", "saved.apng">> }
parent(path) == SubSeq(path, 1, Len(path) - 1)
parents(path) == { SubSeq(path, 1, n) : n \in 1..(Len(path) - 1) }

\* Path.read_bytes on the disk
disk_read_bytes(d, path) ==
    IF IsSome(d.files[path]) THEN Bytes(Get(d.files[path]))
    ELSE Raise("FileNotFoundError", path)

\* APNG.from_file(path)
APNG_from_file(d, path) ==
    IF IsBytes(disk_read_bytes(d, path)) THEN APNG(disk_read_bytes(d, path).data)
    ELSE disk_read_bytes(d, path)

\* the file is written without its directory being made
mkdir_nothing(d, dir) == d

\* path.parent.mkdir(parents=True, exist_ok=True)
mkdir_parents(d, dir) == [d EXCEPT !.dirs = @ \cup {dir} \cup parents(dir)]

\* path.write_bytes(data): the directory of the file has to be there
write_bytes(d, path, data) ==
    IF Len(path) > 1 /\ parent(path) \notin d.dirs
    THEN [disk |-> d, value |-> Raise("FileNotFoundError", path)]
    ELSE [disk |-> [d EXCEPT !.files[path] = Some(data)], value |-> PathArg(path)]

\* APNG.save(path): the disk afterwards, and the path or an exception
APNG_save(d, self, path) ==
    write_bytes(IF Len(path) > 1 THEN mkdir_parents(d, parent(path)) ELSE d, path, self.data)

\* the keyword arguments APNG.from_images has
from_images_keywords == {"delay_num", "delay_den"}

\* APNG.from_images(images, **kwargs): a keyword the signature does not have
\* is a TypeError before anything runs; absent delays take their defaults
APNG_from_images(images, kwargs) ==
    IF ~(DOMAIN kwargs \subseteq from_images_keywords)
    THEN [frames |-> << >>,
          value |-> Raise("TypeError", <<"from_images() got an unexpected keyword argument">>)]
    ELSE LET delay_num == IF "delay_num" \in DOMAIN kwargs THEN kwargs.delay_num
                          ELSE DefaultDelayNum
             delay_den == IF "delay_den" \in DOMAIN kwargs THEN kwargs.delay_den
                          ELSE DefaultDelayDen
             made == png_images_to_apng_bytes(NoApngFiles, images, None, delay_num, delay_den)
         IN  [frames |-> made.frames,
              value |-> IF IsBytes(made.value) THEN APNG(made.value.data) ELSE made.value]

----------------------------------------------------------------------------
(* DiffResult: attribute access and methods                                *)

\* image objects: those a DiffResult stores, and those an access creates
StoredIds == {"base", "comparing", "diff"}
ObjIds == StoredIds \cup {"r", "t1", "t2", "t3", "inner"}
ImageAttributes == <<"base_image", "comparing_image", "diff_image">>
ImageNames == {"base_image", "comparing_image", "diff_image"}

Access(h, value) == [heap |-> h, value |-> value]

\* paste on the object itself: no new object is made
copy_alias(h, obj, slot) == [heap |-> h, id |-> obj]

\* attr = copy(attr): a new object in `slot` with the pixels of obj
copy_object(h, obj, slot) == [heap |-> [h EXCEPT ![slot] = Some(copy(Get(h[obj])))], id |-> slot]

\* attr.paste(ignore_areas_overlay, (0, 0), ignore_areas_overlay): in place
paste_object(h, obj, overlay) == [h EXCEPT ![obj] = Some(paste(Get(h[obj]), overlay))]

\* the overlay is composited whatever the flag says
overlay_active_whatever_flag(self) == Len(self.ignore_areas) # 0

\* len(self.ignore_areas) != 0 and self.show_ignore_areas_overlay is True
overlay_active(self) ==
    Len(self.ignore_areas) # 0 /\ self.show_ignore_areas_overlay = TRUE

\* __getattribute__ with the condition met: the overlay is made for the size
\* of base_image, attr is copied into slot and the overlay pasted on the copy
overlaid_copy(h, base_image, self, obj, slot) ==
    LET ignore_areas_overlay ==
            Get(create_ignore_areas_overlay(base_image, self.ignore_areas,
                                            DefaultColor, DefaultFill))
        c == copy_object(h, obj, slot)
    IN  Access(paste_object(c.heap, c.id, ignore_areas_overlay), Some(c.id))

\* DiffResult.__getattribute__("base_image"), the returned object put in slot
getattribute_base(h, self, slot) ==
    IF overlay_active(self) /\ IsSome(self.base_image)
    THEN overlaid_copy(h, Get(h[Get(self.base_image)]), self, Get(self.base_image), slot)
    ELSE Access(h, self.base_image)

\* base_image = self.base_image was read as `inner`; the rest of the access
overlaid_copy_for(inner, self, obj, slot) ==
    overlaid_copy(inner.heap, Get(inner.heap[Get(inner.value)]), self, obj, slot)

\* DiffResult.__getattribute__(name) for the three image attributes; for the
\* other two the overlay is made for self.base_image, itself read through
\* __getattribute__
getattribute(h, self, name, slot) ==
    IF name = "base_image" THEN getattribute_base(h, self, slot)
    ELSE IF overlay_active(self) /\ IsSome(self[name])
    THEN overlaid_copy_for(getattribute_base(h, self, "inner"), self, Get(self[name]), slot)
    ELSE Access(h, self[name])

\* objects nothing refers to any more are dropped
Collect(h, keep) == [o \in ObjIds |-> IF o \in StoredIds \cup keep THEN h[o] ELSE None]

\* create_ignore_areas_overlay(self.base_image, self.ignore_areas, ...) with
\* self.base_image read as b
overlay_for(b, self, color, fill) ==
    Access(b.heap,
           create_ignore_areas_overlay(Get(b.heap[Get(b.value)]), self.ignore_areas, color, fill))

\* DiffResult.create_ignore_areas_overlay(color, fill): heap, Optional overlay
method_create_ignore_areas_overlay(h, self, color, fill) ==
    overlay_for(getattribute_base(h, self, "inner"), self, color, fill)

\* one element of images = [self.base_image, self.comparing_image, self.diff_image]
read_into(acc, a) == [heap |-> a.heap, values |-> Append(acc.values, a.value)]

\* APNG.from_images(images, delay_num=, delay_den=, overlay_image=ov)
from_images_with_overlay(values, ov) ==
    Access(ov.heap,
           APNG_from_images([i \in 1..Len(values) |->
                               IF IsSome(values[i]) THEN ov.heap[Get(values[i])] ELSE None],
                            [delay_num |-> DefaultDelayNum, delay_den |-> DefaultDelayDen,
                             overlay_image |-> ov.value]).value)

\* the images are read; the overlay argument and the call of from_images
create_apng_of(acc, self) ==
    from_images_with_overlay(acc.values,
        IF self.show_ignore_areas_overlay = TRUE
        THEN method_create_ignore_areas_overlay(acc.heap, self, DefaultColor, DefaultFill)
        ELSE Access(acc.heap, None))

read_second(acc, self) == read_into(acc, getattribute(acc.heap, self, "comparing_image", "t2"))
read_third(acc, self) == read_into(acc, getattribute(acc.heap, self, "diff_image", "t3"))

\* images = [self.base_image, self.comparing_image, self.diff_image]
create_apng_images(h, self) ==
    read_third(
        read_second(
            read_into([heap |-> h, values |-> << >>],
                      getattribute(h, self, "base_image", "t1")),
            self),
        self)

\* DiffResult.create_apng(): heap, APNG or exception
create_apng(h, self) == create_apng_of(create_apng_images(h, self), self)

Str(text) == [kind |-> "str", text |-> text]
IsStr(r) == r.kind = "str"

\* self.status.name.replace("_", " ").capitalize()
status_title ==
    [n \in {"IMAGE_MATCH", "LAYOUT_DIFFERENCE", "PIXEL_DIFFERENCE"} |->
        IF n = "IMAGE_MATCH" THEN "Image match"
        ELSE IF n = "LAYOUT_DIFFERENCE" THEN "Layout difference"
        ELSE "Pixel difference"]

\* f"{self.diff_lines}": the repr of a list of int
list_str(lines) ==
    <<"[">> \o join(", ", [i \in 1..Len(lines) |-> IntStr(lines[i])]) \o <<"]">>

\* _repr_markdown_: result_lines before the apng is made; only called with
\* a diff_percentage that can be formatted
result_lines(self) ==
    << <<"|Meaning|Value|">>,
       <<"|-------|-----|">>,
       <<"|Status|", status_title[self.status], "|">>,
       <<"|Diff Pixel Count|">> \o OptIntStr(self.diff_pixel_count) \o <<"|">>,
       <<"|Diff Percentage|">> \o Format2f(Get(self.diff_percentage)) \o <<"%|">> >> \o
    (IF Len(self.diff_lines) > 0
     THEN << <<"|Diff Lines|">> \o list_str(self.diff_lines) \o <<"|">> >>
     ELSE << >>)

\* the last line: apng.use_checker_transparency = self.use_checker_transparency,
\* then f"\n<br>{apng}\n"
apng_line(apng, self) ==
    <<"\n<br>">> \o
    APNG_str([apng EXCEPT !.use_checker_transparency = self.use_checker_transparency]) \o
    <<"\n">>

\* _repr_markdown_ after apng = self.create_apng()
repr_markdown_with(apng, self) ==
    IF IsRaise(apng.value) THEN apng
    ELSE Access(apng.heap,
                Str(join("\n", Append(result_lines(self), apng_line(apng.value, self)))))

\* DiffResult._repr_markdown_(): heap, text or exception
repr_markdown(h, self) ==
    IF self.status = "IMAGE_MATCH" THEN Access(h, Str(<<"Images are identical.">>))
    ELSE IF IsNone(self.diff_percentage)
    THEN Access(h, Raise("TypeError", <<"unsupported format string passed to NoneType.__format__">>))
    ELSE repr_markdown_with(create_apng(h, self), self)

----------------------------------------------------------------------------
(* Inputs                                                                  *)

\* the images of the odiff calls: their pixels are never looked at there
ImgA == NewImage(<<2, 1>>, 40)
ImgB == NewImage(<<2, 1>>, 200)
ImgDiff == NewImage(<<2, 1>>, 120)

PathA == Path(CallerDir, "a.jpg")
PathB == Path(CallerDir, "b.jpg")
PathMissing == Path(CallerDir, "c.jpg")
PathOut == Path(CallerDir, "out.png")

RawTuple(x1, y1, x2, y2) == [cls |-> "tuple", items |-> <<x1, y1, x2, y2>>]
RawIgnoreArea(x1, y1, x2, y2) == [cls |-> "IgnoreArea", items |-> <<x1, y1, x2, y2>>]

IgnoreSamples ==
    { None,
      Some(<< >>),
      Some(<<RawTuple(0, 0, 4, 4)>>),
      Some(<<RawIgnoreArea(1, 2, 3, 4), RawTuple(10, 0, 12, 20)>>) }

Options(aa, color, mask, layout, ignore, lines, ram, threshold) ==
    [antialiasing |-> aa, diff_color |-> color, diff_mask |-> mask, fail_on_layout |-> layout,
     ignore |-> ignore, output_diff_lines |-> lines, reduce_ram_usage |-> ram,
     threshold |-> threshold]

DefaultOptions ==
    Options(FALSE, "#FF0000", FALSE, FALSE, None, FALSE, FALSE, [num |-> 1, den |-> 10])

\* every combination of the option values
ValueSamples ==
    { [diff_color |-> "#FF0000", threshold |-> [num |-> 1, den |-> 10]],
      [diff_color |-> "#cd2cc9", threshold |-> [num |-> 25, den |-> 100]] }

AllOptions ==
    { Options(aa, v.diff_color, mask, layout, ignore, lines, ram, v.threshold) :
        aa \in BOOLEAN, v \in ValueSamples, mask \in BOOLEAN,
        layout \in BOOLEAN, ignore \in IgnoreSamples, lines \in BOOLEAN, ram \in BOOLEAN }

OptionSamples ==
    { DefaultOptions,
      [DefaultOptions EXCEPT !.output_diff_lines = TRUE, !.ignore = Some(<< >>)],
      Options(TRUE, "#cd2cc9", TRUE, TRUE,
              Some(<<RawIgnoreArea(1, 2, 3, 4), RawTuple(10, 0, 12, 20)>>),
              TRUE, TRUE, [num |-> 25, den |-> 100]) }

CallArgs(b, c, d, o) == [base |-> b, comparing |-> c, diff |-> d, opts |-> o]

\* the calls of the main specification
Calls ==
    { CallArgs(b, c, d, o) :
        b \in {PathArg(PathA), ImageArg(ImgA)},
        c \in {PathArg(PathB), ImageArg(ImgB), PathArg(PathMissing)},
        d \in {None, Some(PathOut)},
        o \in OptionSamples }

\* what the external process does: it cannot be started, or it exits with a
\* code, two texts and possibly a diff file written to the path it was given
LaunchFailure == [launched |-> FALSE]
Exit(returncode, stdout, stderr, writes) ==
    [launched |-> TRUE, returncode |-> returncode, stdout |-> stdout, stderr |-> stderr,
     writes |-> writes]

ExitCodes == {IMAGE_MATCH, LAYOUT_DIFFERENCE, PIXEL_DIFFERENCE, 1, 124}

StderrSamples == { << >>, <<"odiff: unknown option '--unknown'\n">> }

StdoutSamples ==
    { << >>,
      <<"5">>,
      <<"5", ";", "1", ".", "5">>,
      <<"5", ";", "1", ".", "5", ";", "1", ",", "2", ",", "\n">>,
      <<";", ";", "7">>,
      <<"5", ";", "x">> }

Outcomes ==
    {LaunchFailure} \cup
    { Exit(rc, out, err, w) : rc \in ExitCodes, out \in StdoutSamples, err \in StderrSamples,
                              w \in {None, Some(ImgDiff)} }

----------------------------------------------------------------------------
(* odiff: one call, step by step                                           *)

vars == <<odiff_vars, result_vars, apng_vars, pure_vars, file_vars>>

\* a DiffResult of a match between two path images, before any access
InitResult ==
    /\ heap = [o \in ObjIds |->
                 IF o = "base" THEN Some(ImgA) ELSE IF o = "comparing" THEN Some(ImgB) ELSE None]
    /\ result = DiffResult(Some("base"), Some("comparing"), None, "IMAGE_MATCH", None, None, << >>, << >>)
    /\ original = [base_image |-> Some(ImgA), comparing_image |-> Some(ImgB), diff_image |-> None]
    /\ read = None
    /\ returned = None

\* no function waits for its application
NotApplied == [fn |-> "none"]
InitPure == applied = NotApplied

\* an empty disk, no APNG instance
InitFiles ==
    /\ disk = [files |-> [p \in FilePaths |-> None], dirs |-> {}]
    /\ apng_obj = None

\* no composition yet
InitApng ==
    /\ apng_files = NoApngFiles
    /\ apngasm = << >>
    /\ apng_call = None
    /\ apng_ret = None

\* the two images of the caller, nothing else
InitialFiles ==
    [p \in AllPaths |-> IF p = PathA THEN Some(ImgA) ELSE IF p = PathB THEN Some(ImgB) ELSE None]

InitOdiff ==
    /\ fs = InitialFiles
    /\ dirs = {}
    /\ pc = [self \in Procs |-> "idle"]
    /\ call = [self \in Procs |-> CallArgs(PathArg(PathA), PathArg(PathB), None, DefaultOptions)]
    /\ tmp_dir = [self \in Procs |-> 1]
    /\ base = [self \in Procs |-> PathArg(PathA)]
    /\ comparing = [self \in Procs |-> PathArg(PathB)]
    /\ diff = [self \in Procs |-> None]
    /\ ignore_areas = [self \in Procs |-> << >>]
    /\ cli_args = [self \in Procs |-> << >>]
    /\ completed = [self \in Procs |-> None]
    /\ launches = [self \in Procs |-> 0]
    /\ wrote = [self \in Procs |-> FALSE]
    /\ ret = [self \in Procs |-> None]

\* odiff is called with one of the argument lists `calls`:
\* TemporaryDirectory(prefix="odiff-py-") makes a directory under a name no
\* existing directory has
odiff_enter(self, calls) ==
    /\ pc[self] = "idle"
    /\ \E a \in calls, d \in TmpDirs \ dirs :
         /\ dirs' = dirs \cup {d}
         /\ tmp_dir' = [tmp_dir EXCEPT ![self] = d]
         /\ call' = [call EXCEPT ![self] = a]
         /\ base' = [base EXCEPT ![self] = a.base]
         /\ comparing' = [comparing EXCEPT ![self] = a.comparing]
         /\ diff' = [diff EXCEPT ![self] = a.diff]
    /\ ignore_areas' = [ignore_areas EXCEPT ![self] = << >>]
    /\ cli_args' = [cli_args EXCEPT ![self] = << >>]
    /\ completed' = [completed EXCEPT ![self] = None]
    /\ launches' = [launches EXCEPT ![self] = 0]
    /\ wrote' = [wrote EXCEPT ![self] = FALSE]
    /\ ret' = [ret EXCEPT ![self] = None]
    /\ pc' = [pc EXCEPT ![self] = "stage"]
    /\ UNCHANGED <<fs, result_vars, apng_vars, pure_vars, file_vars>>

\* _odiff up to the call of run_odiff: in-memory images are saved into the
\* scratch directory, the diff path is resolved, the argument vector is built
odiff_stage(self) ==
    /\ pc[self] = "stage"
    /\ LET areas == normalize_ignore(call[self].opts.ignore)
           base_path == IF IsImage(base[self]) THEN Joinpath(tmp_dir[self], "base.png")
                        ELSE base[self].path
           comparing_path == IF IsImage(comparing[self]) THEN Joinpath(tmp_dir[self], "comparing.png")
                             ELSE comparing[self].path
           diff_path == IF IsNone(diff[self]) THEN Joinpath(tmp_dir[self], "diff.png")
                        ELSE Get(diff[self])
           fs1 == IF IsImage(base[self]) THEN WriteFile(fs, base_path, base[self].image) ELSE fs
           fs2 == IF IsImage(comparing[self])
                  THEN WriteFile(fs1, comparing_path, comparing[self].image) ELSE fs1
       IN  /\ ignore_areas' = [ignore_areas EXCEPT ![self] = areas]
           /\ fs' = fs2
           /\ base' = [base EXCEPT ![self] = PathArg(base_path)]
           /\ comparing' = [comparing EXCEPT ![self] = PathArg(comparing_path)]
           /\ diff' = [diff EXCEPT ![self] = Some(diff_path)]
           /\ cli_args' = [cli_args EXCEPT ![self] =
                             build_cli_args(call[self].opts, areas, base_path, comparing_path, diff_path)]
    /\ pc' = [pc EXCEPT ![self] = "run"]
    /\ UNCHANGED <<dirs, call, tmp_dir, completed, launches, wrote, ret, result_vars, apng_vars, pure_vars, file_vars>>

\* run_odiff(*cli_args), with one of `outcomes`: subprocess.run either raises (the executable cannot
\* be started) or returns once the process has exited; the process writes
\* nothing but, possibly, the diff file named by its last argument
run_odiff(self, outcomes) ==
    /\ pc[self] = "run"
    /\ launches' = [launches EXCEPT ![self] = @ + 1]
    /\ \E outcome \in outcomes :
         IF outcome.launched
         THEN /\ completed' = [completed EXCEPT ![self] =
                                 Some([returncode |-> outcome.returncode,
                                       stdout |-> outcome.stdout,
                                       stderr |-> outcome.stderr])]
              /\ fs' = IF IsSome(outcome.writes)
                       THEN WriteFile(fs, PathOf(cli_args[self][Len(cli_args[self])]),
                                      Get(outcome.writes))
                       ELSE fs
              /\ wrote' = [wrote EXCEPT ![self] = IsSome(outcome.writes)]
              /\ pc' = [pc EXCEPT ![self] = "result"]
              /\ UNCHANGED ret
         ELSE /\ ret' = [ret EXCEPT ![self] = Some(Raise("OSError", << >>))]
              /\ pc' = [pc EXCEPT ![self] = "exit"]
              /\ UNCHANGED <<completed, fs, wrote>>
    /\ UNCHANGED <<dirs, call, tmp_dir, base, comparing, diff, ignore_areas, cli_args, result_vars, apng_vars, pure_vars, file_vars>>

\* _odiff after run_odiff returned: the exit code is classified, stdout is
\* parsed and the images are loaded
odiff_result(self) ==
    /\ pc[self] = "result"
    /\ ret' = [ret EXCEPT ![self] =
                 Some(odiff_return(fs, Get(completed[self]).returncode,
                                   Get(completed[self]).stdout, Get(completed[self]).stderr,
                                   base[self].path, comparing[self].path, Get(diff[self]),
                                   ignore_areas[self]))]
    /\ pc' = [pc EXCEPT ![self] = "exit"]
    /\ UNCHANGED <<fs, dirs, call, tmp_dir, base, comparing, diff, ignore_areas, cli_args,
                   completed, launches, wrote, result_vars, apng_vars, pure_vars, file_vars>>

\* the with block of odiff is left, by return or by exception: the scratch
\* directory is cleaned up and the outcome reaches the caller
odiff_exit(self) ==
    /\ pc[self] = "exit"
    /\ LET after == cleanup(fs, dirs, tmp_dir[self], Get(ret[self]))
       IN  fs' = after[1] /\ dirs' = after[2]
    /\ pc' = [pc EXCEPT ![self] = "idle"]
    /\ UNCHANGED <<call, tmp_dir, base, comparing, diff, ignore_areas, cli_args, completed,
                   launches, wrote, ret, result_vars, apng_vars, pure_vars, file_vars>>

\* the calls of one caller, one after the other
Init == InitOdiff /\ InitResult /\ InitApng /\ InitPure /\ InitFiles

Next ==
    \/ odiff_enter("p1", Calls)
    \/ odiff_stage("p1")
    \/ run_odiff("p1", Outcomes)
    \/ odiff_result("p1")
    \/ odiff_exit("p1")

Spec == Init /\ [][Next]_vars

\* control is back at the caller of odiff, with the outcome of the call
Returned(self) == pc[self] = "idle" /\ IsSome(ret[self])

----------------------------------------------------------------------------
(* Claims about the exit code, the numeric fields, the diff image and the  *)
(* scratch directory                                                       *)

Active(self) == pc[self] \in {"stage", "run", "result", "exit"}

\* the outcome of the call once _odiff has produced it
Outcome(self) == Get(ret[self])
Process(self) == Get(completed[self])
Classified(self) == IsSome(ret[self]) /\ IsSome(completed[self])

\* C1: exit code 0 gives IMAGE_MATCH, 21 LAYOUT_DIFFERENCE, 22 PIXEL_DIFFERENCE;
\* any other exit code raises RuntimeError with the message "Error calling
\* odiff executable:\n" followed by stderr unmodified, and returns no DiffResult
C1_ExitCodeClassified ==
    \A self \in Procs :
        Classified(self) =>
            LET rc == Process(self).returncode
                r == Outcome(self)
            IN  /\ rc = 0 /\ IsDiffResult(r) => r.status = "IMAGE_MATCH"
                /\ rc = 21 /\ IsDiffResult(r) => r.status = "LAYOUT_DIFFERENCE"
                /\ rc = 22 /\ IsDiffResult(r) => r.status = "PIXEL_DIFFERENCE"
                /\ rc \in {0, 21, 22} => ~(IsRaise(r) /\ r.exc = "RuntimeError")
                /\ rc \notin {0, 21, 22} =>
                      /\ IsRaise(r)
                      /\ r.exc = "RuntimeError"
                      /\ r.msg = <<"Error calling odiff executable:\n">> \o Process(self).stderr

\* a call that ended on an unrecognised exit code with text on stderr, and
\* calls that returned each of the three statuses
C1_Witness ==
    /\ Returned("p1")
    /\ Classified("p1")
    /\ Process("p1").returncode = 124
    /\ Process("p1").stderr # << >>
    /\ IsRaise(Outcome("p1"))

\* C2: diff_pixel_count and diff_percentage of a returned DiffResult are
\* both present or both None
C2_CountAndPercentageTogether ==
    \A self \in Procs :
        IsSome(ret[self]) /\ IsDiffResult(Outcome(self)) =>
            (IsNone(Outcome(self).diff_pixel_count) <=> IsNone(Outcome(self).diff_percentage))

\* C3: diff_image of the returned DiffResult is present iff the external
\* process wrote a diff file to the target path during that same call
C3_DiffImageIffWritten ==
    \A self \in Procs :
        IsSome(ret[self]) /\ IsDiffResult(Outcome(self)) =>
            (IsSome(Outcome(self).diff_image) <=> wrote[self])

\* C4: a call has exactly one scratch directory while it runs, and once
\* control is back at the caller, on every exit path, the directory and the
\* files staged in it are gone
C4_ScratchDirRemoved ==
    \A self \in Procs :
        /\ Active(self) => tmp_dir[self] \in dirs
        /\ Returned(self) =>
              /\ tmp_dir[self] \notin dirs
              /\ \A n \in TmpNames : ~is_file(fs, Path(tmp_dir[self], n))
        /\ Cardinality(dirs) = Cardinality({p \in Procs : Active(p)})

\* a call that staged both images in its scratch directory and was left by
\* an exception raised while stdout was converted
C4_Witness ==
    /\ Returned("p1")
    /\ IsImage(call["p1"].base)
    /\ IsImage(call["p1"].comparing)
    /\ IsNone(call["p1"].diff)
    /\ wrote["p1"]
    /\ IsRaise(Outcome("p1"))
    /\ Outcome("p1").exc = "ValueError"

----------------------------------------------------------------------------
(* The argument vector for every combination of option values              *)

ArgCalls ==
    { CallArgs(b, PathArg(PathB), d, o) :
        b \in {PathArg(PathA), ImageArg(ImgA)}, d \in {None, Some(PathOut)}, o \in AllOptions }

ArgOutcomes ==
    { Exit(IMAGE_MATCH, << >>, << >>, None),
      Exit(PIXEL_DIFFERENCE, <<"5", ";", "1", ".", "5">>, << >>, Some(ImgDiff)) }

\* one call per behaviour
NextArgs ==
    \/ IsNone(ret["p1"]) /\ odiff_enter("p1", ArgCalls)
    \/ odiff_stage("p1")
    \/ run_odiff("p1", ArgOutcomes)
    \/ odiff_result("p1")
    \/ odiff_exit("p1")

SpecArgs == Init /\ [][NextArgs]_vars

\* the order of the flags in the source, and the order the claim gives
FlagOrderSource ==
    <<"--parsable-stdout", "--antialiasing", "--diff-color=", "--diff-mask", "--fail-on-layout",
      "--ignore=", "--output-diff-lines", "--reduce-ram-usage", "--threshold=">>
FlagOrderClaimed ==
    <<"--parsable-stdout", "--antialiasing", "--diff-mask", "--fail-on-layout",
      "--output-diff-lines", "--reduce-ram-usage", "--diff-color=", "--ignore=", "--threshold=">>

FlagRank(order, name) == CHOOSE i \in 1..Len(order) : order[i] = name
FlagNames == {FlagOrderSource[i] : i \in 1..Len(FlagOrderSource)}

\* the text "x1:y1-x2:y2" of one element of the ignore argument
RegionText(item) ==
    IntStr(item.items[1]) \o <<":">> \o IntStr(item.items[2]) \o <<"-">> \o
    IntStr(item.items[3]) \o <<":">> \o IntStr(item.items[4])

RECURSIVE RegionsText(_)
RegionsText(items) ==
    IF Len(items) = 0 THEN << >>
    ELSE IF Len(items) = 1 THEN RegionText(items[1])
    ELSE RegionText(items[1]) \o <<",">> \o RegionsText(Tail(items))

ThresholdText(t) ==
    IF t = [num |-> 1, den |-> 10] THEN <<"0", ".", "1">> ELSE <<"0", ".", "2", "5">>

\* the argument a flag must appear as, or << >> when it must not appear
ExpectedFlag(o, name) ==
    CASE name = "--parsable-stdout" -> <<name>>
      [] name = "--antialiasing" -> IF o.antialiasing THEN <<name>> ELSE << >>
      [] name = "--diff-mask" -> IF o.diff_mask THEN <<name>> ELSE << >>
      [] name = "--fail-on-layout" -> IF o.fail_on_layout THEN <<name>> ELSE << >>
      [] name = "--output-diff-lines" -> IF o.output_diff_lines THEN <<name>> ELSE << >>
      [] name = "--reduce-ram-usage" -> IF o.reduce_ram_usage THEN <<name>> ELSE << >>
      [] name = "--diff-color=" -> <<name, o.diff_color>>
      [] name = "--ignore=" -> IF IsSome(o.ignore) /\ Len(Get(o.ignore)) > 0
                               THEN <<name>> \o RegionsText(Get(o.ignore)) ELSE << >>
      [] name = "--threshold=" -> <<name>> \o ThresholdText(o.threshold)

\* the three paths the call compares and writes, as texts
ExpectedPaths(self) ==
    << IF IsImage(call[self].base) THEN as_posix(Path(tmp_dir[self], "base.png"))
       ELSE as_posix(call[self].base.path),
       IF IsImage(call[self].comparing) THEN as_posix(Path(tmp_dir[self], "comparing.png"))
       ELSE as_posix(call[self].comparing.path),
       IF IsNone(call[self].diff) THEN as_posix(Path(tmp_dir[self], "diff.png"))
       ELSE as_posix(Get(call[self].diff)) >>

\* cli_args is: the flags, each present exactly when and as its option says,
\* sorted by `order`, then the base, the comparing and the diff path
ArgsAre(self, order) ==
    LET args == cli_args[self]
        n == Len(args)
        flags == SubSeq(args, 1, n - 3)
    IN  /\ n >= 6
        /\ args[1] = <<"--parsable-stdout">>
        /\ SubSeq(args, n - 2, n) = ExpectedPaths(self)
        /\ \A i \in 1..Len(flags) : flags[i][1] \in FlagNames
        /\ \A name \in FlagNames :
              LET at == {i \in 1..Len(flags) : flags[i][1] = name}
                  expected == ExpectedFlag(call[self].opts, name)
              IN  IF expected = << >> THEN at = {}
                  ELSE Cardinality(at) = 1 /\ \A i \in at : flags[i] = expected
        /\ \A i, j \in 1..Len(flags) :
              i < j => FlagRank(order, flags[i][1]) < FlagRank(order, flags[j][1])

HasArgs(self) == pc[self] \in {"run", "result", "exit"} \/ Returned(self)

\* C5 as stated: --parsable-stdout, then the enabled boolean flags, then the
\* value flags, then the three positional paths
C5_BooleansBeforeValues ==
    \A self \in Procs : HasArgs(self) /\ Len(cli_args[self]) > 0 => ArgsAre(self, FlagOrderClaimed)

\* C5 amended: --parsable-stdout, then boolean and value flags interleaved in
\* the order --antialiasing, --diff-color, --diff-mask, --fail-on-layout,
\* --ignore, --output-diff-lines, --reduce-ram-usage, --threshold, then the
\* base, the comparing and the diff path; each boolean flag iff its option is
\* True, --ignore iff the ignore list is non-empty, regions comma-joined in
\* declaration order
C5_FlagsInSourceOrder ==
    \A self \in Procs : HasArgs(self) /\ Len(cli_args[self]) > 0 => ArgsAre(self, FlagOrderSource)

\* a call with every boolean option on, two ignore areas, an in-memory base
\* image and the default diff path has been handed to run_odiff
C5_Witness ==
    /\ pc["p1"] = "result"
    /\ call["p1"].opts.antialiasing /\ call["p1"].opts.diff_mask
    /\ call["p1"].opts.fail_on_layout /\ call["p1"].opts.output_diff_lines
    /\ call["p1"].opts.reduce_ram_usage
    /\ IsSome(call["p1"].opts.ignore) /\ Len(Get(call["p1"].opts.ignore)) = 2
    /\ IsImage(call["p1"].base)
    /\ IsNone(call["p1"].diff)
    /\ Len(cli_args["p1"]) = 12

\* the elements of the ignore argument of the call, none for None
GivenIgnore(self) ==
    IF IsSome(call[self].opts.ignore) THEN Get(call[self].opts.ignore) ELSE << >>

\* the arguments of cli_args that are an --ignore flag
IgnoreFlags(self) ==
    SelectSeq(cli_args[self], LAMBDA arg : arg[1] = "--ignore=")

\* C14: ignore_areas of the returned DiffResult holds one IgnoreArea per
\* element of the ignore argument, raw tuple or IgnoreArea, with the same
\* four integers and in the same order, and is empty for None; the --ignore
\* flag is the serialisation of that same list in that order.
C14_IgnoreNormalised ==
    \A self \in Procs :
        (Returned(self) /\ IsDiffResult(Outcome(self))) =>
            LET given == GivenIgnore(self)
                areas == Outcome(self).ignore_areas
            IN  /\ Len(areas) = Len(given)
                /\ \A i \in 1..Len(given) :
                      areas[i] = [x1 |-> given[i].items[1], y1 |-> given[i].items[2],
                                  x2 |-> given[i].items[3], y2 |-> given[i].items[4]]
                /\ IF Len(areas) = 0 THEN IgnoreFlags(self) = << >>
                   ELSE IgnoreFlags(self) =
                          << <<"--ignore=">> \o
                             join(",", [i \in 1..Len(areas) |-> to_region_str(areas[i])]) >>

\* a call with an IgnoreArea followed by a raw tuple returned a result
C14_Witness ==
    /\ Returned("p1")
    /\ IsDiffResult(Outcome("p1"))
    /\ Len(GivenIgnore("p1")) = 2
    /\ GivenIgnore("p1")[1].cls = "IgnoreArea"
    /\ GivenIgnore("p1")[2].cls = "tuple"
    /\ Outcome("p1").ignore_areas = <<IgnoreArea(1, 2, 3, 4), IgnoreArea(10, 0, 12, 20)>>
    /\ Len(IgnoreFlags("p1")) = 1

----------------------------------------------------------------------------
(* The stdout parser on every short text                                   *)

StdoutAlphabet == {"1", "2", ";", ",", ".", "\n"}
StdoutTexts == UNION {[1..n -> StdoutAlphabet] : n \in 0..MaxStdoutLen}

ParseCalls == { CallArgs(PathArg(PathA), PathArg(PathB), None, DefaultOptions) }

ParseOutcomes == { Exit(PIXEL_DIFFERENCE, out, << >>, Some(ImgDiff)) : out \in StdoutTexts }

\* one call per behaviour
NextParse ==
    \/ IsNone(ret["p1"]) /\ odiff_enter("p1", ParseCalls)
    \/ odiff_stage("p1")
    \/ run_odiff("p1", ParseOutcomes)
    \/ odiff_result("p1")
    \/ odiff_exit("p1")

SpecParse == Init /\ [][NextParse]_vars

\* the semicolon-separated fields of a text, and the k-th of them ("" when missing)
Fields(text) == split(text, ";")
Field(text, k) == IF Len(Fields(text)) >= k THEN Fields(text)[k] ELSE << >>

\* the comma-separated items of field 3 that are not blank
RECURSIVE LineItems(_)
LineItems(items) ==
    IF Len(items) = 0 THEN << >>
    ELSE IF rstrip(Head(items)) = << >> THEN LineItems(Tail(items))
    ELSE <<Head(items)>> \o LineItems(Tail(items))

\* up to three fields: an integer or nothing, a number or nothing, and
\* comma-separated integers
WellFormed(text) ==
    /\ Len(Fields(text)) <= 3
    /\ Field(text, 1) = << >> \/ IntOk(Field(text, 1))
    /\ Field(text, 2) = << >> \/ FloatOk(Field(text, 2))
    /\ LET items == LineItems(split(Field(text, 3), ","))
       IN  \A i \in 1..Len(items) : IntOk(items[i])

\* C6: for a stdout of up to three semicolon-separated fields, the result has
\* diff_pixel_count = the integer of field 1 or None when it is missing or
\* empty, diff_percentage = the number of field 2 or None, and diff_lines =
\* the integers of field 3 in their order, or the empty list
C6_StdoutParsed ==
    \A self \in Procs :
        Classified(self) /\ WellFormed(Process(self).stdout) =>
            LET text == Process(self).stdout
                r == Outcome(self)
                items == LineItems(split(Field(text, 3), ","))
            IN  /\ IsDiffResult(r)
                /\ r.diff_pixel_count =
                      IF Field(text, 1) = << >> THEN None ELSE Some(IntVal(Field(text, 1)))
                /\ r.diff_percentage =
                      IF Field(text, 2) = << >> THEN None ELSE Some(FloatVal(Field(text, 2)))
                /\ r.diff_lines = [i \in 1..Len(items) |-> IntVal(items[i])]

\* a call returned the result of a stdout with three fields, the first two
\* empty and the third one listing two lines in descending order
C6_Witness ==
    /\ Returned("p1")
    /\ Classified("p1")
    /\ Process("p1").stdout = <<";", ";", "2", ",", "1">>
    /\ IsDiffResult(Outcome("p1"))
    /\ Outcome("p1").diff_pixel_count = None
    /\ Outcome("p1").diff_percentage = None
    /\ Outcome("p1").diff_lines = <<2, 1>>

\* the inputs of the call were there when the result was made
InputsLoaded(self) ==
    /\ ~(IsRaise(Outcome(self)) /\ Outcome(self).exc = "FileNotFoundError")

\* C13: a call of odiff ends with a complete DiffResult or with an
\* exception; with a recognised exit code and a stdout field that is not a
\* number where one is expected the conversion error reaches the caller and
\* no DiffResult is returned; the external process is started exactly once
\* per call, whatever the outcome.
C13_CompleteResultOrError ==
    \A self \in Procs :
        /\ launches[self] <= 1
        /\ Returned(self) =>
             /\ launches[self] = 1
             /\ IsDiffResult(Outcome(self)) \/ IsRaise(Outcome(self))
             /\ IsDiffResult(Outcome(self)) =>
                  /\ Classified(self)
                  /\ is_compare_status(Process(self).returncode)
                  /\ WellFormed(Process(self).stdout)
                  /\ Outcome(self).status = CompareStatus(Process(self).returncode)
             /\ (/\ Classified(self)
                 /\ is_compare_status(Process(self).returncode)
                 /\ ~WellFormed(Process(self).stdout)
                 /\ InputsLoaded(self)) =>
                  (IsRaise(Outcome(self)) /\ Outcome(self).exc = "ValueError")

\* a call whose process was started once, exited with a recognised code and
\* printed a word for the percentage has raised ValueError
C13_Witness ==
    /\ Returned("p1")
    /\ Classified("p1")
    /\ launches["p1"] = 1
    /\ Process("p1").returncode = PIXEL_DIFFERENCE
    /\ Process("p1").stdout = <<"5", ";", "x">>
    /\ IsRaise(Outcome("p1"))
    /\ Outcome("p1").exc = "ValueError"

\* C17: with output_diff_lines disabled the diff_lines of the returned
\* DiffResult are empty, whatever the external process prints on stdout.
C17_NoLinesUnlessEnabled ==
    \A self \in Procs :
        (/\ Returned(self)
         /\ IsDiffResult(Outcome(self))
         /\ call[self].opts.output_diff_lines = FALSE)
        => Outcome(self).diff_lines = << >>

----------------------------------------------------------------------------
(* A DiffResult in the hands of its user                                   *)

\* an image whose pixels all differ
Gradient(size, start) ==
    [size |-> size, px |-> [i \in 1..(size[1] * size[2]) |-> (start + 10 * i) % 256]]

ResBase == Gradient(<<ImgW, ImgH>>, 0)
ResComparing == Gradient(<<ImgW, ImgH>>, 3)
\* the layout differs: wider and lower than the base image
ResComparingLayout == Gradient(<<ImgW + 1, ImgH - 1>>, 3)
ResDiff == Gradient(<<ImgW, ImgH>>, 7)

ResIgnoreAreas ==
    { << >>,
      <<IgnoreArea(0, 0, 4, 4)>>,
      <<IgnoreArea(1, 1, 3, 3), IgnoreArea(2, 0, 9, 2)>> }

\* what the constructor was given: the images, the status and the numbers
ResShapes ==
    { [comparing |-> ResComparing, diff |-> None, status |-> "IMAGE_MATCH",
       count |-> None, percentage |-> None, lines |-> << >>],
      [comparing |-> ResComparing, diff |-> Some(ResDiff), status |-> "PIXEL_DIFFERENCE",
       count |-> Some(2), percentage |-> Some([num |-> 8, den |-> 1]), lines |-> <<1, 2>>],
      [comparing |-> ResComparing, diff |-> Some(ResDiff), status |-> "PIXEL_DIFFERENCE",
       count |-> Some(2), percentage |-> None, lines |-> << >>],
      [comparing |-> ResComparingLayout, diff |-> None, status |-> "LAYOUT_DIFFERENCE",
       count |-> None, percentage |-> None, lines |-> << >>] }

InitResults ==
    \E shape \in ResShapes, areas \in ResIgnoreAreas :
        /\ heap = [o \in ObjIds |->
                     IF o = "base" THEN Some(ResBase)
                     ELSE IF o = "comparing" THEN Some(shape.comparing)
                     ELSE IF o = "diff" THEN shape.diff
                     ELSE None]
        /\ result = DiffResult(Some("base"), Some("comparing"),
                               IF IsSome(shape.diff) THEN Some("diff") ELSE None,
                               shape.status, shape.count, shape.percentage, shape.lines, areas)
        /\ original = [base_image |-> Some(ResBase), comparing_image |-> Some(shape.comparing),
                       diff_image |-> shape.diff]
        /\ read = None
        /\ returned = None

\* the object the caller holds from the last read
Held == IF IsSome(read) /\ Get(read).value = Some("r") THEN {"r"} ELSE {}

\* a read of result.<name> has handed back a.value
image_read(name, a) ==
    /\ heap' = Collect(a.heap, IF a.value = Some("r") THEN {"r"} ELSE {})
    /\ read' = Some([name |-> name, flag |-> result.show_ignore_areas_overlay, value |-> a.value])

\* value = result.<name> for one of the three image attributes
read_image(names) ==
    \E name \in names :
        /\ image_read(name, getattribute(heap, result, name, "r"))
        /\ UNCHANGED <<result, original, returned, odiff_vars, apng_vars, pure_vars, file_vars>>

\* result.show_ignore_areas_overlay = v
set_show_ignore_areas_overlay ==
    \E v \in BOOLEAN :
        /\ result' = [result EXCEPT !.show_ignore_areas_overlay = v]
        /\ UNCHANGED <<heap, original, read, returned, odiff_vars, apng_vars, pure_vars, file_vars>>

\* result.use_checker_transparency = v
set_use_checker_transparency ==
    \E v \in BOOLEAN :
        /\ result' = [result EXCEPT !.use_checker_transparency = v]
        /\ UNCHANGED <<heap, original, read, returned, odiff_vars, apng_vars, pure_vars, file_vars>>

\* a method of result has run and handed back a.value
method_returns(method, a) ==
    /\ heap' = Collect(a.heap, Held)
    /\ returned' = Some([method |-> method, value |-> a.value])

\* result.create_apng()
call_create_apng ==
    /\ method_returns("create_apng", create_apng(heap, result))
    /\ UNCHANGED <<result, original, read, odiff_vars, apng_vars, pure_vars, file_vars>>

\* result.create_ignore_areas_overlay()
call_create_ignore_areas_overlay ==
    /\ method_returns("create_ignore_areas_overlay", method_create_ignore_areas_overlay(heap, result, DefaultColor, DefaultFill))
    /\ UNCHANGED <<result, original, read, odiff_vars, apng_vars, pure_vars, file_vars>>

\* result._repr_markdown_()
call_repr_markdown ==
    /\ method_returns("_repr_markdown_", repr_markdown(heap, result))
    /\ UNCHANGED <<result, original, read, odiff_vars, apng_vars, pure_vars, file_vars>>

NextResult ==
    \/ read_image(ImageNames)
    \/ set_show_ignore_areas_overlay
    \/ set_use_checker_transparency
    \/ call_create_apng
    \/ call_create_ignore_areas_overlay
    \/ call_repr_markdown

InitDiffResult == InitOdiff /\ InitResults /\ InitApng /\ InitPure /\ InitFiles

SpecResult == InitDiffResult /\ [][NextResult]_vars

\* the ignore-area overlay composited over a stored image
Overlaid(image) ==
    paste(image, Get(create_ignore_areas_overlay(Get(original.base_image), result.ignore_areas,
                                                 DefaultColor, DefaultFill)))

\* the pixels the last read handed out
ReadImage == IF IsSome(Get(read).value) THEN heap[Get(Get(read).value)] ELSE None

\* C7: a read of base_image, comparing_image or diff_image yields the stored
\* image with the ignore-area overlay composited over it exactly when
\* ignore_areas is non-empty and show_ignore_areas_overlay is True at the
\* time of the read; otherwise it yields the stored image itself, unmodified
\* (None for an absent diff_image). The flag is looked at on every read:
\* nothing is remembered from earlier reads, and with no ignore areas the
\* flag makes no difference.
C7_OverlayIffAreasAndFlag ==
    IsSome(read) =>
        LET r == Get(read)
            stored == original[r.name]
        IN  IF IsNone(stored) THEN r.value = None
            ELSE IF Len(result.ignore_areas) # 0 /\ r.flag = TRUE
            THEN /\ r.value = Some("r")
                 /\ ReadImage = Some(Overlaid(Get(stored)))
            ELSE /\ r.value = result[r.name]
                 /\ ReadImage = stored

\* a read of comparing_image got the overlaid copy, whose pixels differ from
\* the stored ones, and the flag was switched off afterwards
C7_Witness ==
    /\ IsSome(read)
    /\ Get(read).flag = TRUE
    /\ Get(read).name = "comparing_image"
    /\ Len(result.ignore_areas) = 2
    /\ ReadImage = Some(Overlaid(Get(original.comparing_image)))
    /\ ReadImage # original.comparing_image
    /\ result.show_ignore_areas_overlay = FALSE

\* C8: the images a DiffResult stores are never modified: not by reads of
\* the image attributes, create_apng, create_ignore_areas_overlay,
\* _repr_markdown_ or changes of the two flags; a read with the flag off
\* yields the pixels the result was constructed with.
C8_StoredImagesUntouched ==
    /\ heap["base"] = original.base_image
    /\ heap["comparing"] = original.comparing_image
    /\ heap["diff"] = original.diff_image
    /\ (IsSome(read) /\ Get(read).flag = FALSE) => ReadImage = original[Get(read).name]

\* overlaid reads, create_apng and the overlay method have run on a result
\* with ignore areas, and the flag is off again
C8_Witness ==
    /\ Len(result.ignore_areas) # 0
    /\ IsSome(read)
    /\ Get(read).flag = TRUE
    /\ Get(read).name = "base_image"
    /\ ReadImage # original.base_image
    /\ IsSome(returned)
    /\ Get(returned).method = "create_apng"
    /\ result.show_ignore_areas_overlay = FALSE

\* text contains the piece
HasPiece(text, piece) == \E i \in 1..Len(text) : text[i] = piece

ReprReturned == IsSome(returned) /\ Get(returned).method = "_repr_markdown_"

\* C11: _repr_markdown_ never fails: it returns "Images are identical." for
\* IMAGE_MATCH and for every other status, also with diff_pixel_count and
\* diff_percentage None, a table with the rows Status, Diff Pixel Count and
\* Diff Percentage, a Diff Lines row iff diff_lines is non-empty, and then
\* the embedded image.
C11_ReprNeverFails ==
    ReprReturned =>
        LET v == Get(returned).value
        IN  /\ IsStr(v)
            /\ IF result.status = "IMAGE_MATCH" THEN v.text = <<"Images are identical.">>
               ELSE /\ HasPiece(v.text, "|Status|")
                    /\ HasPiece(v.text, "|Diff Pixel Count|")
                    /\ HasPiece(v.text, "|Diff Percentage|")
                    /\ HasPiece(v.text, "|Diff Lines|") <=> Len(result.diff_lines) > 0
                    /\ HasPiece(v.text, "\n<br>")

\* C19: whatever was assigned to use_checker_transparency before, the
\* _repr_markdown_ of a result that is not a match is a text which contains
\* the checkerboard CSS iff the flag is True when it is rendered.
C19_CheckerFlagAtRenderTime ==
    [][(call_repr_markdown /\ result.status # "IMAGE_MATCH") =>
           /\ IsStr(Get(returned').value)
           /\ HasPiece(Get(returned').value.text, CHECKER_TRANSPARENCY_CSS)
                  <=> result.use_checker_transparency = TRUE]_vars

\* the pixels of the images create_apng hands to APNG.from_images
HandedFrames ==
    [i \in 1..3 |->
        IF IsSome(create_apng_images(heap, result).values[i])
        THEN create_apng_images(heap, result).heap[Get(create_apng_images(heap, result).values[i])]
        ELSE None]

\* the pixels of the images the result stores
StoredFrames ==
    [i \in 1..3 |->
        IF IsSome(result[ImageAttributes[i]]) THEN heap[Get(result[ImageAttributes[i]])]
        ELSE None]

\* C21: create_apng hands the stored images, without overlay, to the
\* composer, which alone applies the overlay, and an APNG comes back; this
\* also with ignore areas and show_ignore_areas_overlay True.
C21_OverlayOnlyByComposer ==
    [][call_create_apng =>
           /\ HandedFrames = StoredFrames
           /\ IsAPNG(Get(returned').value)]_vars

\* the first half of C21 alone: the frames handed over are the stored images
HandedFramesAreStored == [][call_create_apng => HandedFrames = StoredFrames]_vars

----------------------------------------------------------------------------
(* The APNG composer in the hands of its user                              *)

ApngOverlay == NewImage(<<2, 1>>, [ink |-> 255, alpha |-> 51])

\* the sequences of optional images of at most MaxFrames entries
ImageSeqs == UNION { [1..n -> {None, Some(ImgA), Some(ImgB)}] : n \in 0..MaxFrames }

\* the sequences composed into the file of the caller
OutFileSeqs ==
    { << >>, <<None>>, <<Some(ImgB)>>, <<Some(ImgA), Some(ImgB)>>,
      <<Some(ImgA), None, Some(ImgB)>> }

PngCalls ==
    { [images |-> i, out_file |-> None, delay_num |-> DefaultDelayNum,
       delay_den |-> DefaultDelayDen] : i \in ImageSeqs } \cup
    { [images |-> i, out_file |-> Some(OutApng), delay_num |-> 100, delay_den |-> 250] :
        i \in OutFileSeqs }

KwargSamples ==
    { [delay_num |-> 100, delay_den |-> 250],
      [delay_num |-> 100],
      [delay_num |-> 100, delay_den |-> 250, overlay_image |-> Some(ApngOverlay)],
      [delay_den |-> 250, overlay_image |-> None] }

FromImagesCalls == { [images |-> i, kwargs |-> k] : i \in ImageSeqs, k \in KwargSamples }

\* data = png_images_to_apng_bytes(images, out_file, delay_num=, delay_den=)
call_png_images_to_apng_bytes(calls) ==
    \E c \in calls :
        LET made == png_images_to_apng_bytes(apng_files, c.images, c.out_file,
                                             c.delay_num, c.delay_den)
        IN  /\ apng_call' = Some([fn |-> "png_images_to_apng_bytes", images |-> c.images,
                                  out_file |-> c.out_file, delay_num |-> c.delay_num,
                                  delay_den |-> c.delay_den, files |-> apng_files])
            /\ apngasm' = made.frames
            /\ apng_files' = made.files
            /\ apng_ret' = Some(made.value)
            /\ UNCHANGED <<odiff_vars, result_vars, pure_vars, file_vars>>

\* apng = APNG.from_images(images, **kwargs)
call_from_images(calls) ==
    \E c \in calls :
        LET made == APNG_from_images(c.images, c.kwargs)
        IN  /\ apng_call' = Some([fn |-> "from_images", images |-> c.images,
                                  kwargs |-> c.kwargs, files |-> apng_files])
            /\ apngasm' = made.frames
            /\ apng_ret' = Some(made.value)
            /\ UNCHANGED <<apng_files, odiff_vars, result_vars, pure_vars, file_vars>>

NextApng ==
    \/ call_png_images_to_apng_bytes(PngCalls)
    \/ call_from_images(FromImagesCalls)

SpecApng == Init /\ [][NextApng]_vars

\* the entries of a sequence of optional images that are not None
Present(images) == SelectSeq(images, IsSome)

CalledWithOverlay ==
    /\ IsSome(apng_call)
    /\ Get(apng_call).fn = "from_images"
    /\ "overlay_image" \in DOMAIN Get(apng_call).kwargs
    /\ IsSome(Get(apng_call).kwargs.overlay_image)

\* C9: APNG.from_images called with an overlay image yields the APNG of the
\* frames (copy of each non-absent image with the overlay pasted on it), so
\* from_images([A, None], overlay_image=O) has the bytes of the single frame
\* copy(A) with O pasted.
C9_OverlayComposited ==
    CalledWithOverlay =>
        LET c == Get(apng_call)
            present == Present(c.images)
            composited == [i \in 1..Len(present) |->
                             Some(paste(copy(Get(present[i])), Get(c.kwargs.overlay_image)))]
            expected == png_images_to_apng_bytes(c.files, composited, None,
                                                 c.kwargs.delay_num, c.kwargs.delay_den).value
        IN  /\ IsSome(apng_ret)
            /\ IsBytes(expected) => (IsAPNG(Get(apng_ret)) /\ Get(apng_ret).data = expected.data)

\* C10: png_images_to_apng_bytes adds one frame per entry that is not None,
\* in the order of the input and with the given delays, and nothing for a
\* None entry; the outcome is that of the call with the None entries
\* removed; with an out_file the returned bytes are the bytes of that file.
C10_NoneEntriesSkipped ==
    (IsSome(apng_call) /\ Get(apng_call).fn = "png_images_to_apng_bytes") =>
        LET c == Get(apng_call)
            present == Present(c.images)
            without_none == png_images_to_apng_bytes(c.files, present, c.out_file,
                                                     c.delay_num, c.delay_den)
        IN  /\ apngasm = [i \in 1..Len(present) |->
                            [image |-> Get(present[i]), delay_num |-> c.delay_num,
                             delay_den |-> c.delay_den]]
            /\ apng_ret = Some(without_none.value)
            /\ apng_files = without_none.files
            /\ Len(present) > 0 =>
                   /\ IsBytes(Get(apng_ret))
                   /\ Get(apng_ret).data[2].num_frames = Len(present)
            /\ (IsSome(c.out_file) /\ IsBytes(Get(apng_ret))) =>
                   apng_files[Get(c.out_file)] = Some(Get(apng_ret).data)

\* [A, None, B] composed into out_file: two frames, the file holds the bytes
C10_Witness ==
    /\ IsSome(apng_call)
    /\ Get(apng_call).fn = "png_images_to_apng_bytes"
    /\ Get(apng_call).images = <<Some(ImgA), None, Some(ImgB)>>
    /\ Get(apng_call).out_file = Some(OutApng)
    /\ IsSome(Get(apng_call).files[OutApng])
    /\ Len(apngasm) = 2
    /\ IsBytes(Get(apng_ret))
    /\ apng_files[OutApng] = Some(Get(apng_ret).data)
    /\ apng_files[OutApng] # Get(apng_call).files[OutApng]

----------------------------------------------------------------------------
(* run_odiff: the command handed to subprocess.run, and what the external   *)
(* process receives as its arguments.  Text is a sequence of characters.   *)

\* ODIFF_EXE.as_posix()
ODIFF_EXE == <<"b", "i", "n", "/", "o", "d", "i", "f", "f">>

\* the characters shlex.quote leaves alone, of those the model uses
SafeChars == {"a", "b", "d", "f", "i", "n", "o", "/", "-", "=", ".", ":", ","}

\* s.replace("'", "'\"'\"'")
RECURSIVE escape_single_quotes(_)
escape_single_quotes(s) ==
    IF Len(s) = 0 THEN << >>
    ELSE (IF Head(s) = "'" THEN <<"'", "\"", "'", "\"", "'">> ELSE <<Head(s)>>) \o
         escape_single_quotes(Tail(s))

\* shlex.quote
quote(s) ==
    IF Len(s) = 0 THEN <<"'", "'">>
    ELSE IF \A i \in 1..Len(s) : s[i] \in SafeChars THEN s
    ELSE <<"'">> \o escape_single_quotes(s) \o <<"'">>

\* cmd = " ".join(cmd) on Windows
windows_cmd(args) ==
    [kind |-> "str", text |-> join(" ", <<quote(ODIFF_EXE)>> \o args)]

\* run_odiff: cmd as given to subprocess.run
run_odiff_cmd(system, args) ==
    IF system = "windows" THEN windows_cmd(args)
    ELSE [kind |-> "list", items |-> <<quote(ODIFF_EXE)>> \o args]

\* how a Windows process splits its command line: blanks outside double
\* quotes separate the arguments, a double quote switches quoting and is
\* not part of the argument
RECURSIVE windows_argv(_, _, _, _)
windows_argv(text, current, started, in_quotes) ==
    IF Len(text) = 0 THEN (IF started THEN <<current>> ELSE << >>)
    ELSE IF Head(text) = "\"" THEN windows_argv(Tail(text), current, TRUE, ~in_quotes)
    ELSE IF Head(text) = " " /\ ~in_quotes
    THEN (IF started THEN <<current>> ELSE << >>) \o windows_argv(Tail(text), << >>, FALSE, FALSE)
    ELSE windows_argv(Tail(text), Append(current, Head(text)), TRUE, in_quotes)

\* the argument vector the external process starts with
subprocess_argv(cmd) ==
    IF cmd.kind = "list" THEN cmd.items ELSE windows_argv(cmd.text, << >>, FALSE, FALSE)

ArgChars == {"a", "b", " "}
ArgTexts == UNION { [1..n -> ArgChars] : n \in 0..MaxArgLen }
ArgLists == UNION { [1..n -> ArgTexts] : n \in 0..MaxArgs }

\* platform.system().lower()
Systems == {"windows", "linux"}

InitRunOdiff ==
    /\ InitOdiff /\ InitResult /\ InitApng /\ InitFiles
    /\ \E system \in Systems, args \in ArgLists :
           applied = [fn |-> "run_odiff", system |-> system, args |-> args, value |-> None]

\* run_odiff(*args) up to the start of the external process
start_odiff ==
    /\ applied.fn = "run_odiff"
    /\ IsNone(applied.value)
    /\ applied' = [applied EXCEPT
                     !.value = Some(subprocess_argv(run_odiff_cmd(applied.system, applied.args)))]
    /\ UNCHANGED <<odiff_vars, result_vars, apng_vars, file_vars>>

NextRunOdiff == start_odiff

SpecRunOdiff == InitRunOdiff /\ [][NextRunOdiff]_vars

Started == applied.fn = "run_odiff" /\ IsSome(applied.value)

\* C12: on Windows, where the command is handed over as one string, the
\* external process receives exactly the arguments run_odiff was given,
\* each as one unchanged argument, also when an argument contains a blank.
C12_WindowsArgumentsDelivered ==
    (Started /\ applied.system = "windows") => Tail(Get(applied.value)) = applied.args

----------------------------------------------------------------------------
(* IgnoreArea.to_region_str and the --ignore text on integer rectangles    *)

\* the coordinates: around zero, and the two of largest magnitude
Coords == (-2..2) \cup {0 - MaxCoord, MaxCoord}
Rectangles == { IgnoreArea(x1, y1, x2, y2) : x1, y1, x2, y2 \in Coords }

\* the rectangles of the lists
ListRectangles == { IgnoreArea(x1, y1, x2, y2) : x1, y1, x2, y2 \in {-1, MaxCoord} }
RectangleLists ==
    { <<r>> : r \in Rectangles } \cup
    UNION { [1..n -> ListRectangles] : n \in {0, 2} }

InitRegions ==
    /\ InitOdiff /\ InitResult /\ InitApng /\ InitFiles
    /\ \E areas \in RectangleLists :
           applied = [fn |-> "to_region_str", areas |-> areas, value |-> None]

\* ",".join(ia.to_region_str() for ia in ignore_areas), as in the --ignore flag
serialise_regions ==
    /\ applied.fn = "to_region_str"
    /\ IsNone(applied.value)
    /\ applied' = [applied EXCEPT !.value = Some(Tail(ignore_arg(applied.areas)))]
    /\ UNCHANGED <<odiff_vars, result_vars, apng_vars, file_vars>>

NextRegions == serialise_regions

SpecRegions == InitRegions /\ [][NextRegions]_vars

\* the integer a text of digits with an optional leading "-" denotes
SignedVal(text) ==
    IF Len(text) > 0 /\ text[1] = "-" THEN 0 - DigitsVal(Tail(text)) ELSE DigitsVal(text)

\* "y1-x2" read back: the separator is the first "-" that is not the sign of y1
ReadPair(text) ==
    LET at == CHOOSE i \in 2..Len(text) : text[i] = "-" /\ \A j \in 2..(i - 1) : text[j] # "-"
    IN  <<SignedVal(SubSeq(text, 1, at - 1)), SignedVal(SubSeq(text, at + 1, Len(text)))>>

\* "x1:y1-x2:y2" read back
ReadRegion(text) ==
    LET parts == split(text, ":")
        pair == ReadPair(parts[2])
    IN  IgnoreArea(SignedVal(parts[1]), pair[1], pair[2], SignedVal(parts[3]))

\* the comma-joined regions read back
ReadRegions(text) ==
    IF Len(text) = 0 THEN << >>
    ELSE [i \in 1..Len(split(text, ",")) |-> ReadRegion(split(text, ",")[i])]

Serialised == applied.fn = "to_region_str" /\ IsSome(applied.value)

\* C15: to_region_str gives the text "x1:y1-x2:y2", from which the four
\* integers are read back exactly, so that no two rectangles have the same
\* text; the comma-joined text of a list of rectangles determines the list.
C15_RegionTextDeterminesList ==
    Serialised =>
        LET text == Get(applied.value)
            areas == applied.areas
        IN  /\ ReadRegions(text) = areas
            /\ Len(areas) = 1 =>
                  text = IntStr(areas[1].x1) \o <<":">> \o IntStr(areas[1].y1) \o <<"-">> \o
                         IntStr(areas[1].x2) \o <<":">> \o IntStr(areas[1].y2)

\* a rectangle with a negative x2 after a negative y1, of two digits
C15_Witness ==
    /\ Serialised
    /\ applied.areas = <<IgnoreArea(1, 0 - MaxCoord, 0 - MaxCoord, 2)>>
    /\ ReadRegions(Get(applied.value)) = applied.areas
    /\ Len(Get(applied.value)) > 9

(***************************************************************************)
(* APNG objects and files: from_file, save, str.                           *)
(***************************************************************************)

ByteValues == {0, 77, 255}
RECURSIVE SeqsUpTo(_, _)
SeqsUpTo(S, n) ==
    IF n = 0 THEN {<< >>}
    ELSE SeqsUpTo(S, n - 1) \cup
         { Append(q, x) : q \in { r \in SeqsUpTo(S, n - 1) : Len(r) = n - 1 }, x \in S }
ByteContents == SeqsUpTo(ByteValues, MaxBytes)

TigerApng == <<"in", "tiger.apng">>
SavedApng == <<"saved.apng">>

\* one animation file on the disk, and an older file where a save can write
InitApngFiles ==
    /\ InitOdiff /\ InitResult /\ InitApng /\ InitPure
    /\ \E data \in ByteContents :
           disk = [files |-> [p \in FilePaths |->
                                IF p = TigerApng THEN Some(data)
                                ELSE IF p = SavedApng THEN Some(<<255, 0>>) ELSE None],
                   dirs |-> {<<"in">>}]
    /\ apng_obj = None

\* apng = APNG.from_file(path)
call_from_file(path) ==
    /\ apng_call' = Some([fn |-> "from_file", path |-> path])
    /\ apng_ret' = Some(APNG_from_file(disk, path))
    /\ apng_obj' = IF IsAPNG(APNG_from_file(disk, path))
                   THEN Some([apng |-> APNG_from_file(disk, path),
                              origin |-> Get(disk.files[path])])
                   ELSE apng_obj
    /\ UNCHANGED <<disk, apngasm, apng_files, odiff_vars, result_vars, pure_vars>>

\* apng.use_checker_transparency = value
set_apng_use_checker_transparency(value) ==
    /\ IsSome(apng_obj)
    /\ Get(apng_obj).apng.use_checker_transparency # value
    /\ apng_obj' = Some([Get(apng_obj) EXCEPT !.apng.use_checker_transparency = value])
    /\ UNCHANGED <<disk, apng_vars, odiff_vars, result_vars, pure_vars>>

\* apng.save(path)
call_save(path) ==
    /\ IsSome(apng_obj)
    /\ apng_call' = Some([fn |-> "save", path |-> path])
    /\ disk' = APNG_save(disk, Get(apng_obj).apng, path).disk
    /\ apng_ret' = Some(APNG_save(disk, Get(apng_obj).apng, path).value)
    /\ UNCHANGED <<apng_obj, apngasm, apng_files, odiff_vars, result_vars, pure_vars>>

\* APNG.from_file(saved) with the path save has returned
call_from_file_saved ==
    /\ IsSome(apng_call) /\ Get(apng_call).fn = "save"
    /\ ~IsRaise(Get(apng_ret))
    /\ apng_call' = Some([fn |-> "from_file_saved", path |-> Get(apng_ret).path])
    /\ apng_ret' = Some(APNG_from_file(disk, Get(apng_ret).path))
    /\ UNCHANGED <<disk, apng_obj, apngasm, apng_files, odiff_vars, result_vars, pure_vars>>

\* str(apng)
call_str ==
    /\ IsSome(apng_obj)
    /\ apng_call' = Some([fn |-> "__str__", path |-> << >>])
    /\ apng_ret' = Some(Str(APNG_str(Get(apng_obj).apng)))
    /\ UNCHANGED <<disk, apng_obj, apngasm, apng_files, odiff_vars, result_vars, pure_vars>>

NextApngFiles ==
    \/ \E path \in FilePaths : call_from_file(path)
    \/ \E value \in BOOLEAN : set_apng_use_checker_transparency(value)
    \/ \E path \in FilePaths : call_save(path)
    \/ call_from_file_saved
    \/ call_str

SpecApngFiles == InitApngFiles /\ [][NextApngFiles]_vars

LastApngCall(fn) == IsSome(apng_call) /\ Get(apng_call).fn = fn

\* C16: APNG.from_file(p).save(q) followed by APNG.from_file(q) gives an
\* object whose data is byte for byte the content of p, for every content and
\* every target file q: save makes the missing directories above q, writes
\* the data, returns q and leaves the data of the instance as it was.
C16_SaveLoadRoundTrip ==
    /\ LastApngCall("save") =>
           /\ Get(apng_ret) = PathArg(Get(apng_call).path)
           /\ parents(Get(apng_call).path) \subseteq disk.dirs
           /\ disk.files[Get(apng_call).path] = Some(Get(apng_obj).origin)
           /\ Get(apng_obj).apng.data = Get(apng_obj).origin
    /\ LastApngCall("from_file_saved") =>
           /\ IsAPNG(Get(apng_ret))
           /\ Get(apng_ret).data = Get(apng_obj).origin
           /\ Get(apng_obj).apng.data = Get(apng_obj).origin

\* a three byte animation has been saved two directories deep, none of which
\* was there, and read back
C16_Witness ==
    /\ LastApngCall("from_file_saved")
    /\ Get(apng_call).path = <<"out", "deep", "saved.apng">>
    /\ {<<"out">>, <<"out", "deep">>} \subseteq disk.dirs
    /\ IsAPNG(Get(apng_ret))
    /\ Get(apng_ret).data = <<255, 0, 77>>
    /\ Get(apng_obj).origin = <<255, 0, 77>>

B64Value(c) == CHOOSE v \in 0..63 : B64Alphabet[v + 1] = c

\* the bytes a base64 text stands for
RECURSIVE b64decode(_)
b64decode(text) ==
    IF Len(text) < 4 THEN << >>
    ELSE (IF text[3] = "="
          THEN <<B64Value(text[1]) * 4 + B64Value(text[2]) \div 16>>
          ELSE IF text[4] = "="
          THEN <<B64Value(text[1]) * 4 + B64Value(text[2]) \div 16,
                 (B64Value(text[2]) % 16) * 16 + B64Value(text[3]) \div 4>>
          ELSE <<B64Value(text[1]) * 4 + B64Value(text[2]) \div 16,
                 (B64Value(text[2]) % 16) * 16 + B64Value(text[3]) \div 4,
                 (B64Value(text[3]) % 4) * 64 + B64Value(text[4])>>) \o
         b64decode(SubSeq(text, 5, Len(text)))

\* the text between src="data:image/apng;base64, and the closing quote
EmbeddedImage(text) ==
    LET at == CHOOSE i \in 1..Len(text) : text[i] = "\" src=\"data:image/apng;base64,"
    IN  SubSeq(text, at + 1, Len(text) - 1)

\* the APNG half of C19: str(apng) contains the checkerboard CSS iff the flag
\* of the APNG is True when it is rendered, and the embedded image is the
\* base64 text of its bytes.
ApngStrFollowsFlag ==
    [][call_str =>
           /\ HasPiece(Get(apng_ret').text, CHECKER_TRANSPARENCY_CSS)
                  <=> Get(apng_obj).apng.use_checker_transparency = TRUE
           /\ Len(EmbeddedImage(Get(apng_ret').text)) = 4 * ((Len(Get(apng_obj).apng.data) + 2) \div 3)
           /\ b64decode(EmbeddedImage(Get(apng_ret').text)) = Get(apng_obj).apng.data]_vars

(***************************************************************************)
(* create_ignore_areas_overlay, applied once to an image, a list of        *)
(* areas, a colour and a fill                                              *)
(***************************************************************************)

OverlaySize == <<ImgW + 2, ImgH + 1>>
AreaFull == IgnoreArea(0, 0, ImgW + 1, ImgH)
AreaInner == IgnoreArea(2, 1, 4, 3)
AreaRight == IgnoreArea(1, 0, ImgW + 1, ImgH - 1)
AreaBeyond == IgnoreArea(3, 2, ImgW + 5, ImgH + 5)
AreaPixel == IgnoreArea(0, 0, 0, 0)
OverlayAreas == {AreaFull, AreaInner, AreaRight, AreaBeyond, AreaPixel}
OverlayAreaLists == SeqsUpTo(OverlayAreas, MaxAreas)
OverlayColors == {"red", "gray"}
OverlayFills == {[num |-> 0, den |-> 1], DefaultFill, [num |-> 1, den |-> 1]}

InitOverlay ==
    /\ InitOdiff /\ InitResult /\ InitApng /\ InitFiles
    /\ \E areas \in OverlayAreaLists, color \in OverlayColors, fill \in OverlayFills :
           applied = [fn |-> "create_ignore_areas_overlay",
                      image |-> Gradient(OverlaySize, 0), areas |-> areas,
                      color |-> color, fill |-> fill, value |-> None]

\* overlay = create_ignore_areas_overlay(image, areas, color, fill=fill)
apply_create_ignore_areas_overlay ==
    /\ applied.fn = "create_ignore_areas_overlay"
    /\ IsNone(applied.value)
    /\ applied' = [applied EXCEPT !.value =
                     Some(create_ignore_areas_overlay(applied.image, applied.areas,
                                                      applied.color, applied.fill))]
    /\ UNCHANGED <<odiff_vars, result_vars, apng_vars, file_vars>>

NextOverlay == apply_create_ignore_areas_overlay

SpecOverlay == InitOverlay /\ [][NextOverlay]_vars

OverlayMade == applied.fn = "create_ignore_areas_overlay" /\ IsSome(applied.value)
Transparent == [ink |-> 0, alpha |-> 0]
BorderInk == [ink |-> getrgb(applied.color), alpha |-> 255]
FillInk ==
    [ink |-> getrgb(applied.color), alpha |-> (255 * applied.fill.num) \div applied.fill.den]
Filled == applied.fill.num # 0

\* the area paints the pixel: on its border, and inside it when there is a fill
Paints(a, x, y) == OnBorder(a, x, y) \/ (InRect(a, x, y) /\ Filled)
PaintOf(a, x, y) ==
    IF OnBorder(a, x, y) THEN BorderInk ELSE IF Filled THEN FillInk ELSE Transparent
First(S) == CHOOSE k \in S : \A j \in S : k <= j
OverlayPixel(x, y) == Get(Get(applied.value)).px[PxIndex(OverlaySize, x, y)]
OverlayPixels == {<<x, y>> : x \in 0..(OverlaySize[1] - 1), y \in 0..(OverlaySize[2] - 1)}

ParCalls ==
    { CallArgs(b, c, d, DefaultOptions) :
        b \in {PathArg(PathA), ImageArg(ImgA)},
        c \in {ImageArg(ImgB), ImageArg(ImgDiff)},
        d \in {None, Some(PathOut)} }

ParOutcomes ==
    { LaunchFailure,
      Exit(IMAGE_MATCH, << >>, << >>, None),
      Exit(PIXEL_DIFFERENCE, <<"5", ";", "1", ".", "5">>, << >>, Some(ImgDiff)) }

\* the one call of a caller
odiff_enter_once(self) ==
    /\ IsNone(ret[self])
    /\ odiff_enter(self, ParCalls)

NextPar ==
    \E self \in Procs :
        \/ odiff_enter_once(self)
        \/ odiff_stage(self)
        \/ run_odiff(self, ParOutcomes)
        \/ odiff_result(self)
        \/ odiff_exit(self)

SpecPar == Init /\ [][NextPar]_vars

Other(self) == CHOOSE other \in Procs : other # self
Entered(self) == pc[self] # "idle" \/ IsSome(ret[self])

\* the files of a call run alone: the caller's two images, what the call
\* has staged itself and what its own process has written
AloneFiles(self) ==
    LET staged_base ==
            IF IsImage(call[self].base)
            THEN WriteFile(InitialFiles, Joinpath(tmp_dir[self], "base.png"), call[self].base.image)
            ELSE InitialFiles
        staged ==
            IF IsImage(call[self].comparing)
            THEN WriteFile(staged_base, Joinpath(tmp_dir[self], "comparing.png"),
                           call[self].comparing.image)
            ELSE staged_base
    IN  IF wrote[self] THEN WriteFile(staged, Get(diff[self]), ImgDiff) ELSE staged

\* the DiffResult or exception of the call run alone with the same process outcome
AloneOutcome(self) ==
    odiff_return(AloneFiles(self), Process(self).returncode, Process(self).stdout,
                 Process(self).stderr, base[self].path, comparing[self].path, Get(diff[self]),
                 normalize_ignore(call[self].opts.ignore))

\* the paths handed to the process are the caller's own or in the scratch
\* directory of this call, which is no other call's
OwnPaths(self) ==
    /\ pc[self] \in {"run", "result"} =>
         /\ \A p \in {base[self].path, comparing[self].path, Get(diff[self])} :
                p.dir \in {CallerDir, tmp_dir[self]}
         /\ pc[Other(self)] # "idle" => tmp_dir[Other(self)] # tmp_dir[self]

\* both calls name the same diff file
SharedDiff ==
    /\ Entered("p1") /\ Entered("p2")
    /\ IsSome(call["p1"].diff)
    /\ call["p1"].diff = call["p2"].diff

ParReturned(self) == Returned(self) /\ IsSome(completed[self])

====
